---- MODULE Spec2Model ----
(***************************************************************************)
(* A model of the translation engine of the graph-query compiler:          *)
(*   - the caller-context lookup (ContextParser),                          *)
(*   - the read translation with where-mode and allow-mode authorization,  *)
(*     together with the evaluation of the generated statement on a small  *)
(*     property graph,                                                     *)
(*   - the execution of generated mutation statements inside a database    *)
(*     transaction,                                                        *)
(*   - the mutation resolver that publishes change events, and the         *)
(*     subscribers that consume them.                                      *)
(***************************************************************************)
EXTENDS Naturals, Integers, Sequences, FiniteSets, TLC

\* JavaScript `undefined` / Cypher `null`.
Undefined == "undefined"

(***************************************************************************)
(* Bounds of the model.                                                    *)
(***************************************************************************)
\* Deepest nesting of connection fields below the root of a read.
MaxDepth == 2
\* Largest number of HAS_POST edges in an initial graph.
MaxEdges == 2
\* Largest number of elements in the array a mutation passes for `posts`.
MaxOps == 2

(***************************************************************************)
(* Caller context and ContextParser.                                       *)
(***************************************************************************)
\* A JS value: an object with named fields, or a string leaf.
Obj(fields) == [kind |-> "obj", val |-> fields]
Leaf(s) == [kind |-> "leaf", val |-> s]

\* dotProp.get(object, path): walk the path, undefined as soon as a segment
\* is missing or the value walked into is not an object.
RECURSIVE dotPropGet(_, _)
dotPropGet(object, path) ==
    IF path = <<>> THEN (IF object.kind = "leaf" THEN object.val ELSE object)
    ELSE IF object.kind = "obj" /\ Head(path) \in DOMAIN object.val
         THEN dotPropGet(object.val[Head(path)], Tail(path))
         ELSE Undefined

\* ContextParser.getContextProperty(path, context)
getContextProperty(path, context) ==
    dotPropGet(Obj([value |-> context]), <<"value">> \o path)

\* A plausible slip: the `jwt.` prefix is left out, so `sub` is looked up at
\* the top of the context instead of inside the token.
getJwtProperyNoPrefix(path, context) == getContextProperty(path, context)

\* ContextParser.getJwtPropery(path, context)
getJwtPropery(path, context) == getContextProperty(<<"jwt">> \o path, context)

\* The caller contexts a request can carry: a token with a `sub` claim, a
\* token without one, no token at all, and a context that has a top-level
\* `sub` but no token.
Contexts ==
    { Obj([jwt |-> Obj([sub |-> Leaf("id-01"), roles |-> Leaf("admin")])]),
      Obj([jwt |-> Obj([sub |-> Leaf("id-02"), roles |-> Leaf("admin")])]),
      Obj([jwt |-> Obj([roles |-> Leaf("admin")])]),
      Obj([req |-> Leaf("r")]),
      Obj([sub |-> Leaf("id-01")]) }

\* The path a rule value `$jwt.sub` names inside the token.
SubPath == <<"sub">>

(***************************************************************************)
(* The property graph.                                                     *)
(***************************************************************************)
Users == {"u1", "u2"}
Posts == {"p1", "p2"}
Nodes == Users \cup Posts
\* The node a create statement allocates.
NewNode == "u3"
AllNodes == Nodes \cup {NewNode}
NoProps == [id |-> Undefined, name |-> Undefined, password |-> Undefined]

TypeOf(n) == IF n \in Posts THEN "Post" ELSE "User"

\* Property maps of the initial graphs.  Every node has the properties `id`
\* and `name` (`name` stands for Post.content on a post).
InitProps ==
    { [n \in AllNodes |->
          IF n = "u1" THEN [NoProps EXCEPT !.id = a, !.name = "bob"]
          ELSE IF n = "u2" THEN [NoProps EXCEPT !.id = "id-02", !.name = c]
          ELSE IF n = "p1" THEN [NoProps EXCEPT !.id = "some-id", !.name = "cool"]
          ELSE IF n = "p2" THEN [NoProps EXCEPT !.id = "other-id", !.name = "dull"]
          ELSE NoProps] :
      a \in {"id-01", Undefined}, c \in {"bob", "alice"} }

\* HAS_POST edges, (user, post).
InitEdges == { e \in SUBSET (Users \X Posts) : Cardinality(e) <= MaxEdges }

\* The creators of a post: (post)<-[:HAS_POST]-(:User)
Creators(edges, p) == { e[1] : e \in { x \in edges : x[2] = p } }
\* The posts of a user: (user)-[:HAS_POST]->(:Post)
PostsOf(edges, u) == { e[2] : e \in { x \in edges : x[1] = u } }

(***************************************************************************)
(* The schemas of the tests.                                               *)
(*   "where": User and Post carry a where-mode rule for READ, UPDATE,      *)
(*            DELETE, CONNECT and DISCONNECT.                              *)
(*   "allow": User and Post carry an allow-mode rule for every operation.  *)
(* In both, the rule of User is { id: "$jwt.sub" } and the rule of Post is *)
(* { creator: { id: "$jwt.sub" } }.                                        *)
(***************************************************************************)
Schemas == {"where", "allow"}

RuleMode(schema) == schema

RuleOperations(schema) ==
    IF schema = "where"
    THEN {"READ", "UPDATE", "DELETE", "CONNECT", "DISCONNECT"}
    ELSE {"CREATE", "READ", "UPDATE", "DELETE", "CONNECT", "DISCONNECT"}

\* The connection fields a type offers, in declaration order.
ConnectionFields(schema, type) ==
    IF type = "User"
    THEN (IF schema = "where" THEN <<"postsConnection", "contentConnection">>
          ELSE <<"postsConnection">>)
    ELSE <<"creatorConnection">>

\* The type at the far end of a relationship field.
FieldTarget(field) ==
    IF field \in {"creatorConnection", "creator"} THEN "User" ELSE "Post"

\* The nodes related to n through a relationship field.
Related(edges, n, field) ==
    IF FieldTarget(field) = "User" THEN Creators(edges, n) ELSE PostsOf(edges, n)

(***************************************************************************)
(* Predicates of the generated statement.                                  *)
(*   <<"true">>                                                            *)
(*   <<"eq", v, prop, param>>       v.prop = $param                        *)
(*   <<"autheq", v, prop, param>>   (v.prop IS NOT NULL AND v.prop = $param)*)
(*   <<"and", p, q>>  and  <<"or", p, q>>                                  *)
(*   <<"rel", v, quant, b, p>>      exists((v)<-[:HAS_POST]-(:User)) AND   *)
(*        quant(b IN [(v)<-[:HAS_POST]-(b:User) | b] WHERE p)              *)
(***************************************************************************)
TruePred == <<"true">>

\* A slip that lets the user filter widen the match: OR instead of AND.
OrPred(userPred, authPred) ==
    IF userPred = TruePred THEN authPred
    ELSE IF authPred = TruePred THEN userPred
    ELSE <<"or", userPred, authPred>>

\* A conjunction that keeps an empty side: `WHERE  AND ...`.
AndPredKeepsEmpty(userPred, authPred) == <<"and", userPred, authPred>>

\* The user filter and the where-auth predicate, joined with AND; an absent
\* side leaves the other alone.
AndPred(userPred, authPred) ==
    IF userPred = TruePred THEN authPred
    ELSE IF authPred = TruePred THEN userPred
    ELSE <<"and", userPred, authPred>>

\* The variables a predicate reads that it does not bind itself.
RECURSIVE FreeVars(_)
FreeVars(p) ==
    CASE p[1] = "true" -> {}
      [] p[1] \in {"eq", "autheq"} -> {p[2]}
      [] p[1] \in {"and", "or"} -> FreeVars(p[2]) \cup FreeVars(p[3])
      [] p[1] = "rel" -> {p[2]} \cup (FreeVars(p[5]) \ {p[4]})

\* The parameter table as the statement sees it: a name is bound to the value
\* of the last binding made under it.
ParamValue(bindings, name) ==
    LET idx == { i \in 1..Len(bindings) : bindings[i].name = name }
    IN  IF idx = {} THEN Undefined
        ELSE bindings[CHOOSE i \in idx : \A j \in idx : j <= i].value

\* A comparison with an absent value on either side is not true.
CompareEq(a, b) == a # Undefined /\ b # Undefined /\ a = b

\* The value of a predicate with its variables bound by env.
RECURSIVE Eval(_, _, _, _, _)
Eval(p, env, props, edges, bindings) ==
    CASE p[1] = "true" -> TRUE
      [] p[1] \in {"eq", "autheq"} ->
            CompareEq(props[env[p[2]]][p[3]], ParamValue(bindings, p[4]))
      [] p[1] = "and" -> Eval(p[2], env, props, edges, bindings)
                         /\ Eval(p[3], env, props, edges, bindings)
      [] p[1] = "or" -> Eval(p[2], env, props, edges, bindings)
                        \/ Eval(p[3], env, props, edges, bindings)
      [] p[1] = "rel" ->
            LET cs == Creators(edges, env[p[2]])
            IN  /\ cs # {}
                /\ IF p[3] = "all"
                   THEN \A c \in cs :
                          Eval(p[5], (p[4] :> c) @@ env, props, edges, bindings)
                   ELSE \E c \in cs :
                          Eval(p[5], (p[4] :> c) @@ env, props, edges, bindings)

(***************************************************************************)
(* Requests.  A read names a selection: the relationship fields requested  *)
(* below the root, in pre-order, each with its path from the root and its  *)
(* optional filter argument.  An update or a delete names the root only.   *)
(***************************************************************************)
\* kind "conn": a connection field (postsConnection); kind "rel": a plain
\* relationship field (posts).
Entry(path, kind, where) == [path |-> path, kind |-> kind, where |-> where]

\* The filter values a connection field may carry on its node id.
EntryWheres(schema, depth) ==
    IF schema = "where" /\ depth = 1 THEN {Undefined, "some-id"} ELSE {Undefined}

\* The selections below a node of `type` reached by `prefix`, at most
\* `depth` levels deep, over the connection fields in `fields`.
RECURSIVE ConnSelections(_, _, _, _, _)
ConnSelections(schema, type, fields, prefix, depth) ==
    IF depth = 0 \/ fields = <<>> THEN {<<>>}
    ELSE LET f == Head(fields)
             path == prefix \o <<f>>
             rest == ConnSelections(schema, type, Tail(fields), prefix, depth)
             below == ConnSelections(schema, FieldTarget(f),
                                     ConnectionFields(schema, FieldTarget(f)),
                                     path, depth - 1)
             with == { <<Entry(path, "conn", w)>> \o b :
                          w \in EntryWheres(schema, Len(path)), b \in below }
         IN  { h \o r : h \in with \cup {<<>>}, r \in rest }

\* The plain relationship field `posts` of User, with or without a filter on
\* the post's content ("where" schema, directly below the root).
RelSelections(schema) ==
    IF schema = "where"
    THEN { <<>> } \cup { <<Entry(<<"posts">>, "rel", w)>> : w \in {Undefined, "cool"} }
    ELSE { <<>> }

Selections(schema) ==
    { c \o r : c \in ConnSelections(schema, "User",
                                    ConnectionFields(schema, "User"), <<>>, MaxDepth),
               r \in RelSelections(schema) }

Request(schema, op, where, sel, ctx, set, nested) ==
    [schema |-> schema, op |-> op, where |-> where, sel |-> sel, ctx |-> ctx,
     set |-> set, nested |-> nested]

\* Reads of both schemas, and the updates and deletes of the "where" schema
\* that name the root only.
Requests ==
    UNION { { Request(s, "READ", w, sel, c, Undefined, <<>>) :
                w \in {Undefined, "bob"}, c \in Contexts, sel \in Selections(s) } :
            s \in Schemas }
    \cup
    { Request("where", o, w, <<>>, c, Undefined, <<>>) :
        o \in {"UPDATE", "DELETE"}, w \in {Undefined, "bob"}, c \in Contexts }

\* One element of the array a mutation passes for the field `posts`.
\*   group: the argument the array belongs to: "update" (update: { posts }),
\*          "connect", "disconnect", "delete", or "create" (input: { posts:
\*          { connect } }).
\*   kind:  what the element asks for: update, connect, disconnect, delete.
\*   where: the id its filter asks of the target, if any.
Element(group, kind, where) == [group |-> group, kind |-> kind, where |-> where]

GroupElements(group) ==
    CASE group = "update" ->
            { Element(group, "update", Undefined) }
            \cup { Element(group, k, w) : k \in {"connect", "disconnect"},
                                          w \in {Undefined, "some-id"} }
      [] group = "connect" ->
            { Element(group, "connect", w) : w \in {Undefined, "some-id"} }
      [] group = "disconnect" ->
            { Element(group, "disconnect", w) : w \in {Undefined, "some-id"} }
      [] group = "create" ->
            { Element(group, "connect", w) : w \in {Undefined, "some-id"} }
      [] group = "delete" -> { Element(group, "delete", Undefined) }

\* The arrays of one to MaxOps elements of a group.
NestedInputs(group) ==
    UNION { [1..n -> GroupElements(group)] : n \in 1..MaxOps }

\* The contexts of the callers of mutations: a token with the claim, and
\* none.
MutContexts ==
    { Obj([jwt |-> Obj([sub |-> Leaf("id-01"), roles |-> Leaf("admin")])]),
      Obj([req |-> Leaf("r")]) }

\* The projection `posts { id }` of an update's response.
UpdateProjections == { <<>>, <<Entry(<<"posts">>, "rel", Undefined)>> }

MutRequests ==
    { Request("where", "UPDATE", w, sel, c, set, nested) :
        w \in {Undefined, "bob"}, sel \in UpdateProjections, c \in MutContexts,
        set \in {Undefined, "Bob"},
        nested \in {<<>>} \cup NestedInputs("update") \cup NestedInputs("connect")
                          \cup NestedInputs("disconnect") }
    \cup
    { Request("where", "DELETE", w, <<>>, c, Undefined, nested) :
        w \in {Undefined, "bob"}, c \in MutContexts,
        nested \in {<<>>} \cup NestedInputs("delete") }
    \cup
    { Request("where", "CREATE", Undefined, <<>>, c, "Bob", nested) :
        c \in MutContexts, nested \in {<<>>} \cup NestedInputs("create") }

(***************************************************************************)
(* Naming.                                                                 *)
(***************************************************************************)
\* The decimal text of a small counter.
ToStr(n) == <<"0", "1", "2", "3", "4", "5", "6", "7", "8", "9">>[n + 1]

\* The variable of a connection level: the parent's variable, then the
\* target's name: lower-cased for a relationship to a concrete type, as
\* declared for a member of a union.
ConnVarSuffix(field) ==
    IF field = "postsConnection" THEN "post"
    ELSE IF field = "contentConnection" THEN "Post"
    ELSE "user"

\* derive(parentContext, fieldName): the variable bound at the child level.
deriveVar(parentVar, entry) ==
    IF entry.kind = "conn"
    THEN parentVar \o "_" \o ConnVarSuffix(entry.path[Len(entry.path)])
    ELSE parentVar \o "_" \o entry.path[Len(entry.path)]

\* The parameter of the filter argument of a connection field.
ConnWhereParam(parentVar, field) ==
    parentVar \o "_" \o field \o "_args_where_"
        \o (IF field = "contentConnection" THEN "Post_Post" ELSE "Post") \o "param0"

\* A slip in the parameter prefix: every level uses the root's prefix.
AuthParamRootPrefix(var) == "thisauth_param0"

\* The parameter of the authorization rule attached at the level of `var`.
AuthParam(var) == var \o "auth_param0"

(***************************************************************************)
(* Authorization predicates.                                               *)
(***************************************************************************)
\* The predicate of the rule of `type`, over the variable `var`, reading the
\* parameter `param`; `bvar` is the variable it binds while it walks to the
\* creator of a post.
createAuthPredicate(schema, type, var, bvar, param) ==
    IF type = "User" THEN <<"autheq", var, "id", param>>
    ELSE <<"rel", var, (IF RuleMode(schema) = "where" THEN "all" ELSE "any"),
           bvar, <<"autheq", bvar, "id", param>>>>

\* A binding of the parameter table, with the place of the request that
\* made it: the path of the level and the role of the value.
Binding(name, value, path, role) ==
    [name |-> name, value |-> value, site |-> <<path, role>>]

(***************************************************************************)
(* Translation of one level of a request.                                  *)
(***************************************************************************)
\* A slip: the rule of a nested level is handed its parent's variable.
AuthVarOfParent(parentVar, var) == parentVar

\* The variable handed to the rule of a level: the one bound at that level.
AuthVar(parentVar, var) == var

\* A slip: a nested level drops its allow-mode rule.
ValidatePartRootOnly(schema, kind, authPred) ==
    IF RuleMode(schema) = "allow" /\ kind = "root" THEN authPred ELSE TruePred

\* What the level checks with apoc.util.validate: its allow-mode rule.
ValidatePart(schema, kind, authPred) ==
    IF RuleMode(schema) = "allow" THEN authPred ELSE TruePred

\* What the level filters on in WHERE: the user filter, and with it the
\* where-mode rule.
WherePart(schema, userPred, authPred) ==
    IF RuleMode(schema) = "where" THEN AndPred(userPred, authPred) ELSE userPred

Level(schema, path, kind, var, parentVar, userPred, authPred) ==
    [path |-> path, kind |-> kind, var |-> var, parentVar |-> parentVar,
     type |-> (IF kind = "root" THEN "User" ELSE FieldTarget(path[Len(path)])),
     user |-> userPred, auth |-> authPred,
     where |-> WherePart(schema, userPred, authPred),
     validate |-> ValidatePart(schema, kind, authPred)]

\* The value bound to the parameter of a rule: the `sub` claim of the token.
AuthValue(r) == getJwtPropery(SubPath, r.ctx)

\* The root: MATCH (this:User) WHERE ... -- shared by read, update and delete.
RootUserPred(r) ==
    IF r.where = Undefined THEN TruePred ELSE <<"eq", "this", "name", "param0">>

RootAuthPred(r) ==
    IF r.op \in RuleOperations(r.schema)
    THEN createAuthPredicate(r.schema, "User", AuthVar("this", "this"),
                             "auth_this0", AuthParam("this"))
    ELSE TruePred

RootLevel(r) ==
    Level(r.schema, <<>>, "root", "this", "this", RootUserPred(r), RootAuthPred(r))

RootBindings(r) ==
    (IF r.where = Undefined THEN <<>>
     ELSE <<Binding("param0", r.where, <<>>, "where")>>)
    \o (IF r.op \in RuleOperations(r.schema)
        THEN <<Binding(AuthParam("this"), AuthValue(r), <<>>, "auth")>>
        ELSE <<>>)

\* A connection field below the level of parentVar.
ConnLevel(r, entry, parentVar) ==
    LET field == entry.path[Len(entry.path)]
        var == deriveVar(parentVar, entry)
    IN  Level(r.schema, entry.path, "conn", var, parentVar,
              (IF entry.where = Undefined THEN TruePred
               ELSE <<"eq", var, "id", ConnWhereParam(parentVar, field)>>),
              createAuthPredicate(r.schema, FieldTarget(field),
                                  AuthVar(parentVar, var), "auth_this0",
                                  AuthParam(var)))

ConnBindings(r, entry, parentVar) ==
    LET field == entry.path[Len(entry.path)]
        var == deriveVar(parentVar, entry)
    IN  (IF entry.where = Undefined THEN <<>>
         ELSE <<Binding(ConnWhereParam(parentVar, field), entry.where,
                        entry.path, "where"),
                Binding(parentVar \o "_" \o field, <<"args", entry.where>>,
                        entry.path, "args")>>)
        \o <<Binding(AuthParam(var), AuthValue(r), entry.path, "auth")>>

\* A plain relationship field below the level of parentVar.  Its names come
\* from the counters of the subquery's own naming environment, prefixed by
\* the parent's variable: this0 is the relationship, this1 the creator the
\* rule walks to; param0, param1 are numbered in the order of their use.
\* In the response of an update the prefix is `update_`.
RelPrefix(r, parentVar) == IF r.op = "UPDATE" THEN "update_" ELSE parentVar

RelParam(prefix, n) == prefix \o "param" \o ToStr(n)

RelLevel(r, entry, parentVar) ==
    LET var == deriveVar(parentVar, entry)
        prefix == RelPrefix(r, parentVar)
        nWhere == IF entry.where = Undefined THEN 0 ELSE 1
    IN  Level(r.schema, entry.path, "rel", var, parentVar,
              (IF entry.where = Undefined THEN TruePred
               ELSE <<"eq", var, "name", RelParam(prefix, 0)>>),
              createAuthPredicate(r.schema, "Post", AuthVar(parentVar, var),
                                  prefix \o "this1", RelParam(prefix, nWhere)))

RelBindings(r, entry, parentVar) ==
    LET prefix == RelPrefix(r, parentVar)
        nWhere == IF entry.where = Undefined THEN 0 ELSE 1
    IN  (IF entry.where = Undefined THEN <<>>
         ELSE <<Binding(RelParam(prefix, 0), entry.where, entry.path, "where")>>)
        \o <<Binding(RelParam(prefix, nWhere), AuthValue(r), entry.path, "auth")>>

(***************************************************************************)
(* Translation of the input of a mutation.                                 *)
(***************************************************************************)
RootVar(r) == IF r.op = "CREATE" THEN "this0" ELSE "this"

\* The variable of the k-th element of the array passed for `posts`: the
\* root's variable, the argument and the field, and the element's index.
NestedVar(r, k) ==
    LET e == r.nested[k]
        i == ToStr(k - 1)
    IN  CASE e.group = "create" -> "this0_posts_connect" \o i \o "_node"
          [] e.group = "delete" -> "this_posts" \o i
          [] e.group = "connect" -> "this_connect_posts" \o i \o "_node"
          [] e.group = "disconnect" -> "this_disconnect_posts" \o i
          [] e.group = "update" /\ e.kind = "update" -> "this_posts" \o i
          [] e.group = "update" /\ e.kind = "connect" ->
                "this_posts" \o i \o "_connect0_node"
          [] e.group = "update" /\ e.kind = "disconnect" ->
                "this_posts" \o i \o "_disconnect0"

\* The parameter of the filter of the k-th element.
NestedWhereParam(r, k) ==
    LET e == r.nested[k]
        i == ToStr(k - 1)
    IN  CASE e.kind = "connect" -> NestedVar(r, k) \o "_param0"
          [] e.kind = "disconnect" /\ e.group = "update" ->
                "updateUsers_args_update_posts" \o i
                    \o "_disconnect0_where_Postparam0"
          [] e.kind = "disconnect" /\ e.group = "disconnect" ->
                "updateUsers_args_disconnect_posts" \o i \o "_where_Postparam0"
          [] OTHER -> NestedVar(r, k) \o "_param0"

\* The parameter of the new id a nested update sets.
NestedSetParam(k) == "this_update_posts" \o ToStr(k - 1) \o "_id"

NestedSite(r, k) == <<"posts", r.nested[k].group, ToStr(k - 1)>>

\* A target matched with the rule of the source's type, User.
NestedWhereSourceRule(r, k) ==
    LET e == r.nested[k]
        var == NestedVar(r, k)
    IN  WherePart(r.schema,
                  (IF e.where = Undefined THEN TruePred
                   ELSE <<"eq", var, "id", NestedWhereParam(r, k)>>),
                  createAuthPredicate(r.schema, "User", var, "auth_this0",
                                      AuthParam(var)))

\* The predicate the k-th element matches its target post with: its filter
\* and the rule of Post, over the target's variable.
NestedWhere(r, k) ==
    LET e == r.nested[k]
        var == NestedVar(r, k)
    IN  WherePart(r.schema,
                  (IF e.where = Undefined THEN TruePred
                   ELSE <<"eq", var, "id", NestedWhereParam(r, k)>>),
                  createAuthPredicate(r.schema, "Post", AuthVar(RootVar(r), var),
                                      "auth_this0", AuthParam(var)))

NestedBindings(r, k) ==
    LET e == r.nested[k]
        var == NestedVar(r, k)
    IN  (IF e.where = Undefined THEN <<>>
         ELSE <<Binding(NestedWhereParam(r, k), e.where, NestedSite(r, k), "where")>>)
        \o <<Binding(AuthParam(var), AuthValue(r), NestedSite(r, k), "auth")>>
        \o (IF e.kind = "update"
            THEN <<Binding(NestedSetParam(k), "new-id", NestedSite(r, k), "update")>>
            ELSE <<>>)

RECURSIVE AllNestedBindings(_, _)
AllNestedBindings(r, k) ==
    IF k > Len(r.nested) THEN <<>>
    ELSE NestedBindings(r, k) \o AllNestedBindings(r, k + 1)

\* The parameters of the values a mutation writes on its root.
SetBindings(r) ==
    IF r.op = "CREATE"
    THEN <<Binding("this0_id", "123", <<>>, "create_id"),
           Binding("this0_name", r.set, <<>>, "create_name"),
           Binding("this0_password", "password", <<>>, "create_password")>>
    ELSE IF r.set = Undefined THEN <<>>
    ELSE <<Binding("this_update_name", r.set, <<>>, "update")>>

\* The objects bound once for the whole statement: the caller's `auth` for
\* the body of a nested update, the arguments of the mutation for the
\* filters of its disconnects, and the resolved callbacks.
SharedBindings(r) ==
    (IF \E k \in 1..Len(r.nested) : r.nested[k].kind = "update"
     THEN <<Binding("auth", <<"jwt", AuthValue(r)>>, <<>>, "authobj")>>
     ELSE <<>>)
    \o (IF \E k \in 1..Len(r.nested) :
              /\ r.nested[k].kind = "disconnect"
              /\ (r.nested[k].group = "disconnect" \/ r.nested[k].where # Undefined)
        THEN <<Binding("updateUsers", <<"args">>, <<>>, "args")>>
        ELSE <<>>)
    \o (IF r.op \in {"CREATE", "UPDATE"}
        THEN <<Binding("resolvedCallbacks", <<>>, <<>>, "callbacks")>>
        ELSE <<>>)

InputBindings(r) ==
    SetBindings(r) \o AllNestedBindings(r, 1) \o SharedBindings(r)

(***************************************************************************)
(* The statement of a mutation, clause by clause.                          *)
(***************************************************************************)
Clause(c, var, parentVar, where, prop, param) ==
    [c |-> c, var |-> var, parentVar |-> parentVar, where |-> where,
     prop |-> prop, param |-> param]

NoParam == "-"

\* SET this_posts<i>.id = ..., then the check that the post has exactly one
\* creator.
NestedUpdateChecksFirst(r, k) ==
    LET var == NestedVar(r, k)
    IN  << Clause("optmatch", var, RootVar(r), NestedWhere(r, k), "-", NoParam),
           Clause("cardinality", var, RootVar(r), TruePred, "creator", NoParam),
           Clause("set", var, RootVar(r), TruePred, "id", NestedSetParam(k)) >>

NestedUpdateClauses(r, k) ==
    LET var == NestedVar(r, k)
    IN  << Clause("optmatch", var, RootVar(r), NestedWhere(r, k), "-", NoParam),
           Clause("set", var, RootVar(r), TruePred, "id", NestedSetParam(k)),
           Clause("cardinality", var, RootVar(r), TruePred, "creator", NoParam) >>

\* WITH this WHERE <rule of User>, ahead of a connect or disconnect of an
\* update: the rule of the source for CONNECT and DISCONNECT.
SourceCheck(r) ==
    IF r.op = "CREATE" THEN <<>>
    ELSE << Clause("recheck", RootVar(r), RootVar(r), RootAuthPred(r), "-", NoParam) >>

NestedDisconnectClauses(r, k) ==
    SourceCheck(r)
    \o << Clause("disconnect", NestedVar(r, k), RootVar(r), NestedWhere(r, k),
                 "-", NoParam) >>

NestedConnectClauses(r, k) ==
    SourceCheck(r)
    \o << Clause("connect", NestedVar(r, k), RootVar(r), NestedWhere(r, k),
                 "-", NoParam) >>

NestedDeleteClauses(r, k) ==
    LET var == NestedVar(r, k)
    IN  << Clause("optmatch", var, RootVar(r), NestedWhere(r, k), "-", NoParam),
           Clause("delete", var, RootVar(r), TruePred, "-", NoParam) >>

NestedClauses(r, k) ==
    LET kind == r.nested[k].kind
    IN  CASE kind = "update" -> NestedUpdateClauses(r, k)
          [] kind = "connect" -> NestedConnectClauses(r, k)
          [] kind = "disconnect" -> NestedDisconnectClauses(r, k)
          [] kind = "delete" -> NestedDeleteClauses(r, k)

RECURSIVE AllNestedClauses(_, _)
AllNestedClauses(r, k) ==
    IF k > Len(r.nested) THEN <<>>
    ELSE NestedClauses(r, k) \o AllNestedClauses(r, k + 1)

\* The clauses on the root: CREATE and its SETs, or MATCH ... WHERE and the
\* SET of an update.
RootClauses(r) ==
    IF r.op = "CREATE"
    THEN << Clause("create", "this0", "this0", TruePred, "-", NoParam),
            Clause("set", "this0", "this0", TruePred, "id", "this0_id"),
            Clause("set", "this0", "this0", TruePred, "name", "this0_name"),
            Clause("set", "this0", "this0", TruePred, "password", "this0_password") >>
    ELSE << Clause("match", "this", "this", RootLevel(r).where, "-", NoParam) >>
         \o (IF r.set = Undefined THEN <<>>
             ELSE << Clause("set", "this", "this", TruePred, "name",
                            "this_update_name") >>)

\* The statement: the root, then the nested operations in the order of the
\* input, then the delete of the root or the RETURN.
MutationPlan(r) ==
    RootClauses(r) \o AllNestedClauses(r, 1)
    \o (IF r.op = "DELETE"
        THEN << Clause("delete", "this", "this", TruePred, "-", NoParam) >>
        ELSE << Clause("return", RootVar(r), RootVar(r), TruePred, "-", NoParam) >>)

(***************************************************************************)
(* Evaluation of the generated read on a graph.                            *)
(***************************************************************************)
\* The index of the level translated for a path.
LevelIndex(lvls, path) == CHOOSE i \in 1..Len(lvls) : lvls[i].path = path

\* Front(path): the path of the parent level.
ParentPath(path) == SubSeq(path, 1, Len(path) - 1)

\* The rows a level produces: one binding of the variables of the level and
\* of its ancestors per matched node that passes the level's WHERE.
RECURSIVE LevelRows(_, _, _, _, _)
LevelRows(lvls, i, props, edges, bindings) ==
    LET l == lvls[i]
    IN  IF l.kind = "root"
        THEN { env \in { (l.var :> u) : u \in Users } :
                  Eval(l.where, env, props, edges, bindings) }
        ELSE LET parents == LevelRows(lvls, LevelIndex(lvls, ParentPath(l.path)),
                                      props, edges, bindings)
                 field == l.path[Len(l.path)]
             IN  { env \in UNION { { (l.var :> n) @@ penv :
                                       n \in Related(edges, penv[l.parentVar], field) } :
                                   penv \in parents } :
                      Eval(l.where, env, props, edges, bindings) }

\* Some row of some level fails the level's apoc.util.validate.
ValidateFails(lvls, props, edges, bindings) ==
    \E i \in 1..Len(lvls) :
        \E env \in LevelRows(lvls, i, props, edges, bindings) :
            ~Eval(lvls[i].validate, env, props, edges, bindings)

\* A count taken from the match of the relationship, ahead of its WHERE.
TotalCountOfMatch(l, penv, props, edges, bindings) ==
    Cardinality(Related(edges, penv[l.parentVar], l.path[Len(l.path)]))

\* totalCount of the connection level l below the parent row penv:
\* size(collect(edge)) over the edges collected from the rows that passed
\* the WHERE of the level.
TotalCount(l, penv, props, edges, bindings) ==
    LET edgesOf == { n \in Related(edges, penv[l.parentVar], l.path[Len(l.path)]) :
                       Eval(l.where, (l.var :> n) @@ penv, props, edges, bindings) }
    IN  Cardinality(edgesOf)

\* The outcome of the statement: the error raised by a failed validate, or
\* per level the nodes whose data the response holds, and per connection
\* level the totalCount returned below each parent node.
ReadResult(lvls, props, edges, bindings) ==
    IF ValidateFails(lvls, props, edges, bindings)
    THEN [status |-> "FORBIDDEN", data |-> [i \in 1..Len(lvls) |-> {}],
          totalCount |-> [i \in 1..Len(lvls) |-> {}]]
    ELSE [status |-> "ok",
          data |-> [i \in 1..Len(lvls) |->
                      { env[lvls[i].var] :
                          env \in LevelRows(lvls, i, props, edges, bindings) }],
          totalCount |-> [i \in 1..Len(lvls) |->
                      IF lvls[i].kind # "conn" THEN {}
                      ELSE { <<penv[lvls[i].parentVar],
                               TotalCount(lvls[i], penv, props, edges, bindings)>> :
                             penv \in LevelRows(lvls,
                                                LevelIndex(lvls, ParentPath(lvls[i].path)),
                                                props, edges, bindings) }]]

(***************************************************************************)
(* The translation and execution of one request.                           *)
(***************************************************************************)
\* The request in hand, the position of its translation, the selected
\* fields still to translate, the levels and the parameter table built so
\* far, the graph the database holds, and the response.
VARIABLES rq, tpc, work, levels, params, props, edges, result

\* The run of a mutation: its position, its statement and the next clause,
\* the nodes bound to each variable, the state of each mutated node with the
\* stages it passed, the error raised, the nodes that exist, the graph as
\* the open transaction sees it, and the graph the statement started from.
VARIABLES mpc, plan, ip, bound, nstate, log, failure, exist, wprops, wedges,
          wexist, before

\* The resolvers of the mutations in flight, each at its position; the
\* payload of the event of each; the order the database committed them in;
\* the events handed to the channel; per subscriber the events waiting in
\* its stream and those it has taken.
VARIABLES rpc, title, commitLog, published, buffer, delivered

\* The operation of each mutation in flight; per subscriber the operation it
\* subscribed to and whether it has cancelled.
VARIABLES kind, subscription

\* The statement of a Movie mutation with change events: its request and
\* position, the committed store and edges, the store and edges as the open
\* transaction sees them, the store and edges the statement started from,
\* the metadata the statement returns, and the events the resolver published.
VARIABLES erq, epc, estore, eedges, ework, eworkEdges, ebefore, ebeforeEdges,
          emeta, epub

\* The lookups of a node by its global id that share one context object:
\* the position of each call, its arguments, the context object, what each
\* call handed to execute, how often each call translated and executed, and
\* the outcome of each call.
VARIABLES gpc, garg, context, gquery, gcalls, gout

\* The argument and the result of an applied helper function.
VARIABLES fin, fout

tvars == <<rq, tpc, work, levels, params, props, edges, result>>
mvars == <<mpc, plan, ip, bound, nstate, log, failure, exist, wprops, wedges,
           wexist, before>>
svars == <<rpc, title, commitLog, published, buffer, delivered, kind, subscription>>
evars == <<erq, epc, estore, eedges, ework, eworkEdges, ebefore, ebeforeEdges,
           emeta, epub>>
gvars == <<gpc, garg, context, gquery, gcalls, gout, fin, fout>>
vars == <<tvars, mvars, svars, evars, gvars>>

\* No node lookup is in flight and no function is applied.
GIdle ==
    /\ gpc = <<>>
    /\ garg = <<>>
    /\ context = <<>>
    /\ gquery = <<>>
    /\ gcalls = <<>>
    /\ gout = <<>>
    /\ fin = <<>>
    /\ fout = <<>>

\* No Movie mutation is run.
EIdle ==
    /\ erq = <<>>
    /\ epc = "idle"
    /\ estore = <<>>
    /\ eedges = {}
    /\ ework = <<>>
    /\ eworkEdges = {}
    /\ ebefore = <<>>
    /\ ebeforeEdges = {}
    /\ emeta = <<>>
    /\ epub = <<>>

\* No resolver is in flight and nobody is subscribed.
SIdle ==
    /\ rpc = <<>>
    /\ title = <<>>
    /\ commitLog = <<>>
    /\ published = <<>>
    /\ buffer = <<>>
    /\ delivered = <<>>
    /\ kind = <<>>
    /\ subscription = <<>>

\* No mutation is run.
MIdle ==
    /\ mpc = "idle"
    /\ plan = <<>>
    /\ ip = 0
    /\ bound = <<>>
    /\ nstate = <<>>
    /\ log = <<>>
    /\ failure = "none"
    /\ exist = {}
    /\ wprops = <<>>
    /\ wedges = {}
    /\ wexist = {}
    /\ before = <<>>

NoResult == [status |-> "none", data |-> <<>>, totalCount |-> <<>>]

TInit ==
    /\ rq \in Requests
    /\ tpc = "root"
    /\ work = rq.sel
    /\ levels = <<>>
    /\ params = <<>>
    /\ props \in InitProps
    /\ edges = {}
    /\ result = NoResult
    /\ MIdle
    /\ SIdle
    /\ EIdle
    /\ GIdle

\* translateTopLevelMatch: the root match and its predicate.
TranslateRoot ==
    /\ tpc = "root"
    /\ levels' = <<RootLevel(rq)>>
    /\ params' = RootBindings(rq)
    /\ tpc' = IF rq.op # "READ" THEN "input"
              ELSE IF work = <<>> THEN "execute" ELSE "fields"
    /\ UNCHANGED <<rq, work, props, edges, result, mvars, svars, evars, gvars>>

\* The input of a mutation: the values it sets and its nested operations.
TranslateInput ==
    /\ tpc = "input"
    /\ params' = params \o InputBindings(rq)
    /\ tpc' = IF work = <<>> THEN "execute" ELSE "fields"
    /\ UNCHANGED <<rq, work, levels, props, edges, result, mvars, svars, evars, gvars>>

\* The projection of the next selected relationship field.
TranslateField ==
    /\ tpc = "fields"
    /\ LET entry == Head(work)
           parentVar == levels[LevelIndex(levels, ParentPath(entry.path))].var
       IN  /\ levels' = Append(levels,
                  IF entry.kind = "conn" THEN ConnLevel(rq, entry, parentVar)
                  ELSE RelLevel(rq, entry, parentVar))
           /\ params' = params \o
                  (IF entry.kind = "conn" THEN ConnBindings(rq, entry, parentVar)
                   ELSE RelBindings(rq, entry, parentVar))
    /\ work' = Tail(work)
    /\ tpc' = IF Tail(work) = <<>> THEN "execute" ELSE "fields"
    /\ UNCHANGED <<rq, props, edges, result, mvars, svars, evars, gvars>>

\* execute({ cypher, params }): the statement runs on the graph the database
\* holds at that moment.
Execute ==
    /\ tpc = "execute"
    /\ \E e \in InitEdges :
          /\ edges' = e
          /\ result' = ReadResult(levels, props, e, params)
    /\ tpc' = "done"
    /\ UNCHANGED <<rq, work, levels, params, props, mvars, svars, evars, gvars>>

TNext == TranslateRoot \/ TranslateInput \/ TranslateField \/ Execute

SpecRead == TInit /\ [][TNext]_vars

\* The translation alone, of every request: reads, and mutations with their
\* nested operations and the projection of their response.
NInit ==
    /\ rq \in Requests \cup MutRequests
    /\ tpc = "root"
    /\ work = rq.sel
    /\ levels = <<>>
    /\ params = <<>>
    /\ props = CHOOSE p \in InitProps : TRUE
    /\ edges = {}
    /\ result = NoResult
    /\ MIdle
    /\ SIdle
    /\ EIdle
    /\ GIdle

NNext == TranslateRoot \/ TranslateInput \/ TranslateField

SpecNames == NInit /\ [][NNext]_vars

(***************************************************************************)
(* The run of a mutation in one transaction.                               *)
(***************************************************************************)
\* The graphs mutations start from: the caller's user has the id of the
\* token, a second user has that id or another, and every post has exactly
\* one creator.
MutProps ==
    { [p EXCEPT !["u2"].id = b] :
        p \in { q \in InitProps : q["u1"].id = "id-01" /\ q["u2"].name = "alice" },
        b \in {"id-01", "id-02"} }

MutEdges ==
    { e \in InitEdges : \A p \in Posts : Cardinality(Creators(e, p)) = 1 }

Graph(p, e, x) == [props |-> p, edges |-> e, exist |-> x]

\* The variables of a statement.
PlanVars(p) ==
    { p[i].var : i \in 1..Len(p) } \cup { p[i].parentVar : i \in 1..Len(p) }

\* The states of a mutated node, in the order it passes them.
StateRank(st) ==
    CASE st = "Pending" -> 0
      [] st \in {"Created", "Matched"} -> 1
      [] st = "AuthChecked" -> 2
      [] st = "FieldsApplied" -> 3
      [] st = "RelationshipOpsApplied" -> 4
      [] st = "CardinalityValidated" -> 5
      [] st = "Committed" -> 6

\* The states after the stages in `entries`, pairs of variable and state.
RECURSIVE Stamp(_, _)
Stamp(ns, entries) ==
    IF entries = <<>> THEN ns
    ELSE Stamp([ns EXCEPT ![Head(entries)[1]] = Head(entries)[2]], Tail(entries))

\* The users a root MATCH ... WHERE binds.
MatchRoot(c, g, bindings) ==
    { u \in g.exist : /\ TypeOf(u) = "User"
                      /\ Eval(c.where, (c.var :> u), g.props, g.edges, bindings) }

\* The posts (parent)-[:HAS_POST]->(var:Post) WHERE ... binds.
MatchRelated(c, parents, g, bindings) ==
    { n \in UNION { PostsOf(g.edges, u) : u \in parents } :
         Eval(c.where, (c.var :> n), g.props, g.edges, bindings) }

\* The posts MATCH (var:Post) WHERE ... binds.
MatchAny(c, g, bindings) ==
    { n \in g.exist : /\ TypeOf(n) = "Post"
                      /\ Eval(c.where, (c.var :> n), g.props, g.edges, bindings) }

\* SET var.prop = value on every node bound to var.
SetProp(p, nodes, prop, value) ==
    [n \in DOMAIN p |-> IF n \in nodes THEN [p[n] EXCEPT ![prop] = value] ELSE p[n]]

\* DETACH DELETE: the nodes go, and every edge at them.
DetachDelete(e, nodes) == { x \in e : x[1] \notin nodes /\ x[2] \notin nodes }

\* What is left of an aborted transaction: its writes, kept.
RollbackKeepsWrites(committed, working) == working

\* What is left of an aborted transaction: the graph as it was committed.
Rollback(committed, working) == committed

WorkingGraph == Graph(wprops, wedges, wexist)

MInit ==
    /\ rq \in { r \in MutRequests : r.sel = <<>> }
    /\ tpc = "mutation"
    /\ work = <<>>
    /\ levels = <<>>
    /\ params = <<>>
    /\ props \in MutProps
    /\ edges \in MutEdges
    /\ result = NoResult
    /\ mpc = "translate"
    /\ plan = <<>>
    /\ ip = 0
    /\ bound = <<>>
    /\ nstate = <<>>
    /\ log = <<>>
    /\ failure = "none"
    /\ exist = Nodes
    /\ wprops = props
    /\ wedges = edges
    /\ wexist = Nodes
    /\ before = Graph(props, edges, Nodes)
    /\ SIdle
    /\ EIdle
    /\ GIdle

\* The translation of the mutation: its statement and its parameter table.
MTranslate ==
    /\ mpc = "translate"
    /\ plan' = MutationPlan(rq)
    /\ params' = RootBindings(rq) \o InputBindings(rq)
    /\ bound' = [v \in PlanVars(plan') |-> {}]
    /\ nstate' = [v \in PlanVars(plan') |-> "Pending"]
    /\ ip' = 1
    /\ mpc' = "run"
    /\ UNCHANGED <<rq, tpc, work, levels, props, edges, result, log, failure,
                   exist, wprops, wedges, wexist, before, svars, evars, gvars>>

\* The next clause is of kind k.
AtClause(k) == mpc = "run" /\ ip \in 1..Len(plan) /\ plan[ip].c = k

\* The clause is done: the stages it took its nodes through are recorded.
Done(entries) ==
    /\ nstate' = Stamp(nstate, entries)
    /\ log' = log \o entries
    /\ ip' = ip + 1
    /\ UNCHANGED <<rq, tpc, work, levels, params, props, edges, result, plan,
                   mpc, failure, exist, before, svars, evars, gvars>>

\* MATCH (this:User) WHERE ...
ExecMatch ==
    /\ AtClause("match")
    /\ LET c == plan[ip]
       IN  /\ bound' = [bound EXCEPT ![c.var] = MatchRoot(c, WorkingGraph, params)]
           /\ Done(<< <<c.var, "Matched">>, <<c.var, "AuthChecked">> >>)
    /\ UNCHANGED <<wprops, wedges, wexist>>

\* CREATE (this0:User)
ExecCreate ==
    /\ AtClause("create")
    /\ LET c == plan[ip]
       IN  /\ bound' = [bound EXCEPT ![c.var] = {NewNode}]
           /\ wexist' = wexist \cup {NewNode}
           /\ Done(<< <<c.var, "Created">> >>)
    /\ UNCHANGED <<wprops, wedges>>

\* SET var.prop = $param
ExecSet ==
    /\ AtClause("set")
    /\ LET c == plan[ip]
       IN  /\ wprops' = SetProp(wprops, bound[c.var], c.prop,
                                ParamValue(params, c.param))
           /\ Done(<< <<c.var, "FieldsApplied">> >>)
    /\ UNCHANGED <<bound, wedges, wexist>>

\* OPTIONAL MATCH (this)-[:HAS_POST]->(var:Post) WHERE ...
ExecOptMatch ==
    /\ AtClause("optmatch")
    /\ LET c == plan[ip]
       IN  /\ bound' = [bound EXCEPT ![c.var] =
                          MatchRelated(c, bound[c.parentVar], WorkingGraph, params)]
           /\ Done(<< <<c.var, "Matched">>, <<c.var, "AuthChecked">> >>)
    /\ UNCHANGED <<wprops, wedges, wexist>>

\* WITH this WHERE ...: the rule of the source of a connect or disconnect.
ExecRecheck ==
    /\ AtClause("recheck")
    /\ LET c == plan[ip]
       IN  /\ bound' = [bound EXCEPT ![c.var] =
                          bound[c.var] \cap MatchRoot(c, WorkingGraph, params)]
           /\ Done(<<>>)
    /\ UNCHANGED <<wprops, wedges, wexist>>

\* OPTIONAL MATCH (var:Post) WHERE ... MERGE (this)-[:HAS_POST]->(var)
ExecConnect ==
    /\ AtClause("connect")
    /\ LET c == plan[ip]
           targets == MatchAny(c, WorkingGraph, params)
       IN  /\ bound' = [bound EXCEPT ![c.var] = targets]
           /\ wedges' = wedges \cup (bound[c.parentVar] \X targets)
           /\ Done(<< <<c.var, "Matched">>, <<c.var, "AuthChecked">>,
                      <<c.parentVar, "RelationshipOpsApplied">> >>)
    /\ UNCHANGED <<wprops, wexist>>

\* OPTIONAL MATCH (this)-[rel:HAS_POST]->(var:Post) WHERE ... DELETE rel
ExecDisconnect ==
    /\ AtClause("disconnect")
    /\ LET c == plan[ip]
           targets == MatchRelated(c, bound[c.parentVar], WorkingGraph, params)
       IN  /\ bound' = [bound EXCEPT ![c.var] = targets]
           /\ wedges' = wedges \ (bound[c.parentVar] \X targets)
           /\ Done(<< <<c.var, "Matched">>, <<c.var, "AuthChecked">>,
                      <<c.parentVar, "RelationshipOpsApplied">> >>)
    /\ UNCHANGED <<wprops, wexist>>

\* Every node bound to var has exactly one creator.
CardinalityHolds(c) ==
    \A n \in bound[c.var] : Cardinality(Creators(wedges, n)) = 1

\* CALL apoc.util.validate(NOT (c = 1), 'RELATIONSHIP-REQUIRED...')
ExecCardinality ==
    /\ AtClause("cardinality")
    /\ LET c == plan[ip]
       IN  IF CardinalityHolds(c)
           THEN /\ Done(<< <<c.var, "CardinalityValidated">> >>)
                /\ UNCHANGED <<bound, wprops, wedges, wexist>>
           ELSE /\ failure' = "CardinalityError"
                /\ mpc' = "failed"
                /\ UNCHANGED <<rq, tpc, work, levels, params, props, edges,
                               result, plan, ip, bound, nstate, log, exist,
                               wprops, wedges, wexist, before, svars, evars, gvars>>

\* FOREACH(x IN var_to_delete | DETACH DELETE x), and DETACH DELETE this
ExecDelete ==
    /\ AtClause("delete")
    /\ LET c == plan[ip]
       IN  /\ wexist' = wexist \ bound[c.var]
           /\ wedges' = DetachDelete(wedges, bound[c.var])
           /\ Done(<<>>)
    /\ UNCHANGED <<bound, wprops>>

\* RETURN ...
ExecReturn ==
    /\ AtClause("return")
    /\ Done(<<>>)
    /\ UNCHANGED <<bound, wprops, wedges, wexist>>

\* The database reports a failure while the statement runs.
ExecFail ==
    /\ mpc = "run" /\ ip \in 1..Len(plan)
    /\ failure' = "ExecutionError"
    /\ mpc' = "failed"
    /\ UNCHANGED <<rq, tpc, work, levels, params, props, edges, result, plan,
                   ip, bound, nstate, log, exist, wprops, wedges, wexist, before, svars, evars, gvars>>

\* The statement ran to its end: the transaction commits.
Commit ==
    /\ mpc = "run" /\ ip > Len(plan)
    /\ props' = wprops
    /\ edges' = wedges
    /\ exist' = wexist
    /\ nstate' = [v \in DOMAIN nstate |-> "Committed"]
    /\ mpc' = "committed"
    /\ UNCHANGED <<rq, tpc, work, levels, params, result, plan, ip, bound, log,
                   failure, wprops, wedges, wexist, before, svars, evars, gvars>>

\* The statement failed: the transaction is rolled back.
Abort ==
    /\ mpc = "failed"
    /\ LET g == Rollback(Graph(props, edges, exist), WorkingGraph)
       IN  /\ props' = g.props /\ edges' = g.edges /\ exist' = g.exist
           /\ wprops' = g.props /\ wedges' = g.edges /\ wexist' = g.exist
    /\ mpc' = "aborted"
    /\ UNCHANGED <<rq, tpc, work, levels, params, result, plan, ip, bound,
                   nstate, log, failure, before, svars, evars, gvars>>

MNext ==
    \/ MTranslate
    \/ ExecMatch \/ ExecCreate \/ ExecSet \/ ExecOptMatch \/ ExecRecheck
    \/ ExecConnect \/ ExecDisconnect \/ ExecCardinality \/ ExecDelete
    \/ ExecReturn
    \/ ExecFail \/ Commit \/ Abort

SpecMut == MInit /\ [][MNext]_vars

(***************************************************************************)
(* Subscriptions: the resolvers of mutations, the event channel of the     *)
(* "local" plugin and the streams of the subscribers.                      *)
(***************************************************************************)
\* Number of mutation resolvers in flight.
MaxMuts == 2

\* `null` as a snapshot, and `this { .* }`: the properties of a node of the
\* store. A node that does not exist has the null snapshot.
NullProps == <<>>

\* The metadata of the three statements, as the design writes them.
createMeta(id, new) ==
    [event |-> "create", id |-> id, oldProps |-> NullProps, newProps |-> new]
updateMeta(id, old, new) ==
    [event |-> "create", id |-> id, oldProps |-> old, newProps |-> new]
deleteMetaNothing(id, old) == <<>>
deleteMeta(id, old) ==
    <<[event |-> "delete", id |-> id, oldProps |-> old, newProps |-> NullProps]>>

\* A connect or a disconnect has no event of its own: it is banded under
\* the update of the node it is nested in.
connectMetaOwnEvent(n, a) ==
    <<[event |-> "connect", id |-> a, oldProps |-> NullProps, newProps |-> NullProps]>>
connectMeta(n, a) == <<>>

Muts == 1..MaxMuts

Titles == {"Titanic", "Other"}

Subscribers == {"s1", "s2"}

\* The `where` argument of a subscription: none, or a title.
SubWhere(s) == IF s = "s1" THEN Undefined ELSE "Titanic"

\* result.meta of the mutation m: the metadata of the statement of its
\* operation, on the movie of its title; an update changes the title.
EventOf(m) ==
    [mutation |-> m,
     meta |-> IF kind[m] = "create"
              THEN createMeta("n1", <<[title |-> title[m]]>>)
              ELSE IF kind[m] = "update"
              THEN updateMeta("m1",
                              <<[title |-> IF title[m] = "Titanic" THEN "Other"
                                           ELSE "Titanic"]>>,
                              <<[title |-> title[m]]>>)
              ELSE deleteMeta("m1", <<[title |-> title[m]]>>)[1]]

\* A filter applied to the old snapshot of every event.
MatchesOldProps(s, e) ==
    /\ e.meta.event = subscription[s].operation
    /\ \/ SubWhere(s) = Undefined
       \/ /\ e.meta.oldProps # NullProps
          /\ e.meta.oldProps[1].title = SubWhere(s)

\* Filter the event using the `where` argument: the event is of the
\* subscribed operation and the filter holds of the new snapshot, of the old
\* one for a delete.
Matches(s, e) ==
    /\ e.meta.event = subscription[s].operation
    /\ \/ SubWhere(s) = Undefined
       \/ LET snapshot == IF e.meta.event = "delete" THEN e.meta.oldProps
                          ELSE e.meta.newProps
          IN /\ snapshot # NullProps
             /\ snapshot[1].title = SubWhere(s)

\* The stream of a subscriber buffers what it has not yet taken.
Enqueue(buf, e) == Append(buf, e)

\* A channel that hands an event over only while no stream holds an event
\* its subscriber has not taken.
EmitWhenAllDrained(bufs, e) ==
    [s \in DOMAIN bufs |->
        IF /\ ~subscription[s].cancelled
           /\ Matches(s, e)
           /\ \A x \in DOMAIN bufs : bufs[x] = <<>>
        THEN Enqueue(bufs[s], e)
        ELSE bufs[s]]

\* A channel that keeps the listener of a cancelled subscription.
EmitToCancelled(bufs, e) ==
    [s \in DOMAIN bufs |->
        IF Matches(s, e) THEN Enqueue(bufs[s], e) ELSE bufs[s]]

\* this.events.emit(eventMeta): every listener is handed the event; the
\* listener of a cancelled subscription is detached.
Emit(bufs, e) ==
    [s \in DOMAIN bufs |->
        IF ~subscription[s].cancelled /\ Matches(s, e)
        THEN Enqueue(bufs[s], e)
        ELSE bufs[s]]

\* A resolver that publishes without waiting for the result of the run.
PublishBeforeResult(pc) == pc \in {"awaiting", "committed"}

\* publish comes after `await session.run(cypher)` has a result.
PublishAllowed(pc) == pc = "committed"

SInit ==
    /\ rq = <<>>
    /\ tpc = "idle"
    /\ work = <<>>
    /\ levels = <<>>
    /\ params = <<>>
    /\ props = <<>>
    /\ edges = {}
    /\ result = NoResult
    /\ MIdle
    /\ EIdle
    /\ GIdle
    /\ rpc = [m \in Muts |-> "start"]
    /\ \E input \in [Muts -> { <<"create", "Titanic">>, <<"create", "Other">>,
                                <<"update", "Other">>, <<"delete", "Titanic">> }] :
          /\ kind = [m \in Muts |-> input[m][1]]
          /\ title = [m \in Muts |-> input[m][2]]
    /\ commitLog = <<>>
    /\ published = <<>>
    /\ buffer = [s \in Subscribers |-> <<>>]
    /\ delivered = [s \in Subscribers |-> <<>>]
    /\ \E o \in {"create", "update", "delete"} :
          subscription = [s \in Subscribers |->
                            [operation |-> IF s = "s1" THEN "create" ELSE o,
                             cancelled |-> FALSE]]

\* const cypher = generateCypher(); session.run(cypher) -- the resolver
\* waits for the result.
Run(m) ==
    /\ rpc[m] = "start"
    /\ rpc' = [rpc EXCEPT ![m] = "awaiting"]
    /\ UNCHANGED <<tvars, mvars, evars, gvars, kind, subscription, title, commitLog, published, buffer, delivered>>

\* The database commits the transaction of m.
DbCommit(m) ==
    /\ rpc[m] = "awaiting"
    /\ commitLog' = Append(commitLog, m)
    /\ rpc' = [rpc EXCEPT ![m] = "committed"]
    /\ UNCHANGED <<tvars, mvars, evars, gvars, kind, subscription, title, published, buffer, delivered>>

\* The statement of m fails and is rolled back: session.run rejects and the
\* resolver throws.
DbFail(m) ==
    /\ rpc[m] = "awaiting"
    /\ rpc' = [rpc EXCEPT ![m] = "failed"]
    /\ UNCHANGED <<tvars, mvars, evars, gvars, kind, subscription, title, commitLog, published, buffer, delivered>>

\* context.plugins.subscription.publish(result.meta); return result.data
Publish(m) ==
    /\ PublishAllowed(rpc[m])
    /\ published' = Append(published, EventOf(m))
    /\ buffer' = Emit(buffer, EventOf(m))
    /\ rpc' = [rpc EXCEPT ![m] = "done"]
    /\ UNCHANGED <<tvars, mvars, evars, gvars, kind, subscription, title, commitLog, delivered>>

\* The subscriber s takes the next event of its stream.
Deliver(s) ==
    /\ buffer[s] # <<>>
    /\ delivered' = [delivered EXCEPT ![s] = Append(@, Head(buffer[s]))]
    /\ buffer' = [buffer EXCEPT ![s] = Tail(@)]
    /\ UNCHANGED <<tvars, mvars, evars, gvars, kind, subscription, rpc, title, commitLog, published>>

\* The subscription of s is cancelled: its listener is detached from the
\* channel; what waits in its stream is still handed over, or is dropped.
Cancel(s) ==
    /\ ~subscription[s].cancelled
    /\ subscription' = [subscription EXCEPT ![s].cancelled = TRUE]
    /\ \/ buffer' = buffer
       \/ buffer' = [buffer EXCEPT ![s] = <<>>]
    /\ UNCHANGED <<tvars, mvars, evars, gvars, kind, rpc, title, commitLog, published,
                   delivered>>

SNext ==
    \/ \E m \in Muts : Run(m) \/ DbCommit(m) \/ DbFail(m) \/ Publish(m)
    \/ \E s \in Subscribers : Deliver(s) \/ Cancel(s)

SpecSub == SInit /\ [][SNext]_vars

(***************************************************************************)
(* Change events of Movie mutations: the statements of the subscriptions   *)
(* design, run in a transaction, and the resolver's publish of the         *)
(* metadata they return.                                                   *)
(***************************************************************************)
\* The movies and actors of the store, and the nodes a create statement adds
\* (this0, this1, ...).
Movies == {"m1", "m2"}
NewMovies == { "n" \o ToStr(i) : i \in 1..MaxOps }
EvNodes == Movies \cup NewMovies \cup {"a1"}

\* The order in which a statement returns its rows.
Rows(S) ==
    SelectSeq(<<"a1", "m1", "m2">> \o [i \in 1..MaxOps |-> "n" \o ToStr(i)],
              LAMBDA n : n \in S)

\* The requests: a create of one movie per input element, an update by title
\* with an optional nested connect or disconnect of the actor, a delete by
\* title with an optional nested delete of the movie's actors.
EvRequests ==
    UNION { { [op |-> "create", titles |-> t, where |-> Undefined,
               nested |-> "none"] : t \in [1..k -> Titles] } : k \in 1..MaxOps }
    \cup { [op |-> "update", titles |-> <<t>>, where |-> w, nested |-> n] :
             t \in Titles, w \in Titles, n \in {"none", "connect", "disconnect"} }
    \cup { [op |-> "delete", titles |-> <<>>, where |-> w, nested |-> n] :
             w \in Titles, n \in {"none", "delete"} }

\* The stores a statement can start from.
EvStores ==
    { [n \in EvNodes |->
         IF n = "m1" THEN <<[title |-> t1]>>
         ELSE IF n = "m2" THEN t2
         ELSE IF n = "a1" THEN <<[title |-> "actor"]>>
         ELSE NullProps] :
      t1 \in Titles, t2 \in {NullProps} \cup { <<[title |-> t]>> : t \in Titles } }

\* MATCH (this:Movie) WHERE this.title = $where
MatchMovies(store, where) ==
    { n \in Movies \cup NewMovies :
        /\ store[n] # NullProps
        /\ store[n][1].title = where }

\* The edges after the nested connect or disconnect of an update: the actor
\* is connected to, or disconnected from, every matched movie.
NestedEdges(r, matched, edgs) ==
    IF r.nested = "connect" THEN edgs \cup { <<m, "a1">> : m \in matched }
    ELSE IF r.nested = "disconnect" THEN edgs \ { <<m, "a1">> : m \in matched }
    ELSE edgs

\* The nodes a nested delete removes: the actors of the matched movies, each
\* once.
NestedDeleted(r, matched, edgs) ==
    IF r.nested = "delete"
    THEN { a \in {"a1"} : \E m \in matched : <<m, a>> \in edgs }
    ELSE {}

\* The create statement: one CALL block per input element, each returning
\* the metadata of the node it created.
CreateStatement(r, store, edgs) ==
    LET created == { "n" \o ToStr(i) : i \in 1..Len(r.titles) }
        after == [n \in EvNodes |->
                    IF n \in created
                    THEN <<[title |-> r.titles[CHOOSE i \in 1..Len(r.titles) :
                                                  n = "n" \o ToStr(i)]]>>
                    ELSE store[n]]
    IN [store |-> after,
        edges |-> edgs,
        meta |-> [i \in 1..Len(r.titles) |->
                    createMeta("n" \o ToStr(i), after["n" \o ToStr(i)])]]

\* The update statement: the old properties are taken before the SET, and a
\* row with the metadata is returned for every matched node.
UpdateStatement(r, store, edgs) ==
    LET matched == MatchMovies(store, r.where)
        rows == Rows(matched)
        after == [n \in EvNodes |->
                    IF n \in matched
                    THEN <<[store[n][1] EXCEPT !.title = r.titles[1]]>>
                    ELSE store[n]]
        nestedMeta[i \in 0..Len(rows)] ==
            IF i = 0 THEN <<>>
            ELSE nestedMeta[i - 1] \o connectMeta(rows[i], "a1")
    IN [store |-> after,
        edges |-> NestedEdges(r, matched, edgs),
        meta |-> [i \in 1..Len(rows) |->
                    updateMeta(rows[i], store[rows[i]], after[rows[i]])]
                 \o (IF r.nested = "none" THEN <<>> ELSE nestedMeta[Len(rows)])]

\* The delete statement: the metadata is taken before the DETACH DELETE; a
\* nested delete removes the actors of the matched movies first.
DeleteStatement(r, store, edgs) ==
    LET matched == MatchMovies(store, r.where)
        nested == NestedDeleted(r, matched, edgs)
        rows == Rows(nested) \o Rows(matched)
        metaOf[i \in 0..Len(rows)] ==
            IF i = 0 THEN <<>>
            ELSE metaOf[i - 1] \o deleteMeta(rows[i], store[rows[i]])
    IN [store |-> [n \in EvNodes |->
                     IF n \in matched \cup nested THEN NullProps ELSE store[n]],
        edges |-> { e \in edgs : e[1] \notin matched /\ e[2] \notin nested },
        meta |-> metaOf[Len(rows)]]

EInit ==
    /\ rq = <<>>
    /\ tpc = "idle"
    /\ work = <<>>
    /\ levels = <<>>
    /\ params = <<>>
    /\ props = <<>>
    /\ edges = {}
    /\ result = NoResult
    /\ MIdle
    /\ SIdle
    /\ GIdle
    /\ erq \in EvRequests
    /\ epc = "start"
    /\ estore \in EvStores
    /\ eedges \in SUBSET { <<m, "a1">> : m \in { x \in Movies : estore[x] # NullProps } }
    /\ ework = estore
    /\ eworkEdges = eedges
    /\ ebefore = estore
    /\ ebeforeEdges = eedges
    /\ emeta = <<>>
    /\ epub = <<>>

\* generateCypher and session.run: the statement of the request runs in the
\* transaction.
EvRun ==
    /\ epc = "start"
    /\ LET res == IF erq.op = "create" THEN CreateStatement(erq, estore, eedges)
                  ELSE IF erq.op = "update" THEN UpdateStatement(erq, estore, eedges)
                  ELSE DeleteStatement(erq, estore, eedges)
       IN /\ ework' = res.store
          /\ eworkEdges' = res.edges
          /\ emeta' = res.meta
    /\ epc' = "ran"
    /\ UNCHANGED <<tvars, mvars, svars, gvars, erq, estore, eedges, ebefore,
                   ebeforeEdges, epub>>

\* The transaction commits: `await session.run` returns the result.
EvCommit ==
    /\ epc = "ran"
    /\ estore' = ework
    /\ eedges' = eworkEdges
    /\ epc' = "committed"
    /\ UNCHANGED <<tvars, mvars, svars, gvars, erq, ework, eworkEdges, ebefore,
                   ebeforeEdges, emeta, epub>>

\* The transaction fails: `await session.run` throws, nothing is returned.
EvFail ==
    /\ epc \in {"start", "ran"}
    /\ ework' = estore
    /\ eworkEdges' = eedges
    /\ emeta' = <<>>
    /\ epc' = "failed"
    /\ UNCHANGED <<tvars, mvars, svars, gvars, erq, estore, eedges, ebefore,
                   ebeforeEdges, epub>>

\* The resolver publishes the metadata of the result.
EvPublish ==
    /\ epc = "committed"
    /\ epub' = emeta
    /\ epc' = "done"
    /\ UNCHANGED <<tvars, mvars, svars, gvars, erq, estore, eedges, ework, eworkEdges,
                   ebefore, ebeforeEdges, emeta>>

SpecEvents == EInit /\ [][EvRun \/ EvCommit \/ EvFail \/ EvPublish]_vars

(***************************************************************************)
(* What the rules mean, stated on the graph and the caller's token without *)
(* reference to the generated statement.                                   *)
(***************************************************************************)
\* The token of the context carries the claim the rules name.
Resolvable(ctx) ==
    /\ "jwt" \in DOMAIN ctx.val
    /\ ctx.val.jwt.kind = "obj"
    /\ "sub" \in DOMAIN ctx.val.jwt.val

TokenSub(ctx) == IF Resolvable(ctx) THEN ctx.val.jwt.val.sub.val ELSE Undefined

\* The rule of the type of n holds of n for a caller with claim `sub`.
RuleHolds(mode, n, p, e, sub) ==
    IF n \in Users THEN CompareEq(p[n].id, sub)
    ELSE /\ Creators(e, n) # {}
         /\ IF mode = "where"
            THEN \A c \in Creators(e, n) : CompareEq(p[c].id, sub)
            ELSE \E c \in Creators(e, n) : CompareEq(p[c].id, sub)

\* The user's filter on the root holds of u.
RootFilterHolds(r, p, u) == r.where = Undefined \/ p[u].name = r.where

\* The nodes an allow-schema read walks to along a path of its selection.
RECURSIVE ReachedNodes(_, _, _, _)
ReachedNodes(r, path, p, e) ==
    IF path = <<>> THEN { u \in Users : RootFilterHolds(r, p, u) }
    ELSE UNION { Related(e, n, path[Len(path)]) :
                   n \in ReachedNodes(r, ParentPath(path), p, e) }

SelectedPaths(r) == {<<>>} \cup { r.sel[i].path : i \in 1..Len(r.sel) }

\* Some allow-mode rule is false of some node the read walks to.
AllowRuleFalse(r, p, e) ==
    \E path \in SelectedPaths(r) :
        \E n \in ReachedNodes(r, path, p, e) :
            ~RuleHolds("allow", n, p, e, TokenSub(r.ctx))

Translated == tpc \in {"input", "fields", "execute", "done"}

(***************************************************************************)
(* C1.  For a read, update or delete of a type with a where-mode rule, the *)
(* predicate of the root match is (user filter) AND (where-auth           *)
(* predicate), or the where-auth predicate alone without a user filter;    *)
(* the nodes the statement matches are exactly those for which the user    *)
(* filter and the rule both hold, so each of them satisfies the rule.      *)
(***************************************************************************)
C1_WhereAuthConjoined ==
    (Translated /\ rq.schema = "where") =>
        /\ levels[1].auth = <<"autheq", "this", "id", "thisauth_param0">>
        /\ levels[1].where =
              IF rq.where = Undefined THEN levels[1].auth
              ELSE <<"and", <<"eq", "this", "name", "param0">>, levels[1].auth>>
        /\ levels[1].validate = TruePred
        /\ tpc = "done" =>
              /\ result.status = "ok"
              /\ result.data[1] =
                    { u \in Users : /\ RootFilterHolds(rq, props, u)
                                    /\ RuleHolds("where", u, props, edges,
                                                 TokenSub(rq.ctx)) }

\* A delete with a user filter has run: it matched a node, and it left out a
\* node that passes the user filter and fails the rule.
C1_Witness ==
    /\ tpc = "done" /\ rq.schema = "where" /\ rq.op = "DELETE"
    /\ rq.where # Undefined
    /\ result.data[1] # {}
    /\ \E u \in Users : /\ RootFilterHolds(rq, props, u)
                        /\ u \notin result.data[1]

(***************************************************************************)
(* C2.  A read in which an allow-mode rule is false of some node it walks  *)
(* to, at the root or at a nested connection, ends with the access-denied  *)
(* error and returns no data of any level.                                 *)
(***************************************************************************)
C2_AllowFailureAbortsRead ==
    (tpc = "done" /\ rq.schema = "allow" /\ rq.op = "READ"
        /\ AllowRuleFalse(rq, props, edges)) =>
        /\ result.status = "FORBIDDEN"
        /\ \A i \in 1..Len(levels) : result.data[i] = {}

\* The rule holds of every root node and is false two levels down: the read
\* is refused although the root and the first level are allowed.
C2_Witness ==
    /\ tpc = "done" /\ rq.schema = "allow" /\ rq.op = "READ"
    /\ Len(levels) = 3
    /\ ReachedNodes(rq, <<>>, props, edges) # {}
    /\ \A path \in {<<>>, <<"postsConnection">>} :
          \A n \in ReachedNodes(rq, path, props, edges) :
              RuleHolds("allow", n, props, edges, TokenSub(rq.ctx))
    /\ AllowRuleFalse(rq, props, edges)
    /\ result.status = "FORBIDDEN"

(***************************************************************************)
(* C3.  The authorization predicate attached at a level reads only the     *)
(* variable bound at that level (besides what it binds itself), and that   *)
(* variable is the variable of no other level.                             *)
(***************************************************************************)
C3_AuthReadsOwnVariable ==
    \A i \in 1..Len(levels) :
        /\ FreeVars(levels[i].auth) \subseteq {levels[i].var}
        /\ FreeVars(levels[i].validate) \subseteq {levels[i].var}
        /\ \A j \in 1..Len(levels) : j # i => levels[j].var # levels[i].var

\* users -> posts -> creator has been translated: the rule of the inner User
\* is attached to this_post_user.
C3_Witness ==
    /\ Len(levels) = 3
    /\ levels[3].path = <<"postsConnection", "creatorConnection">>
    /\ levels[3].var = "this_post_user"
    /\ levels[3].validate = <<"autheq", "this_post_user", "id",
                              "this_post_userauth_param0">>

(***************************************************************************)
(* C5.  When the token does not carry the claim a rule names, the lookup   *)
(* yields the absent value, the rule's comparison is true of no node, a    *)
(* where-mode rule excludes every node and an allow-mode rule refuses the  *)
(* read as soon as it is evaluated.                                        *)
(***************************************************************************)
C5_UnresolvedPathIsFalse ==
    (Translated /\ ~Resolvable(rq.ctx)) =>
        /\ getJwtPropery(SubPath, rq.ctx) = Undefined
        /\ \A i \in 1..Len(params) :
              params[i].site[2] = "auth" => params[i].value = Undefined
        /\ tpc = "done" =>
              /\ \A i \in 1..Len(levels) :
                    \A n \in Nodes :
                       TypeOf(n) = levels[i].type =>
                          ~Eval(levels[i].auth, (levels[i].var :> n), props,
                                edges, params)
              /\ \A i \in 1..Len(levels) : result.data[i] = {}
              /\ (rq.schema = "allow"
                    /\ ReachedNodes(rq, <<>>, props, edges) # {})
                  => result.status = "FORBIDDEN"
              /\ rq.schema = "where" => result.status = "ok"

\* A where-schema read by a caller whose context has a `sub` outside the
\* token; a user with that id exists, and nothing is returned.
C5_Witness ==
    /\ tpc = "done" /\ rq.schema = "where" /\ rq.op = "READ"
    /\ ~Resolvable(rq.ctx)
    /\ "sub" \in DOMAIN rq.ctx.val
    /\ \E u \in Users : props[u].id = rq.ctx.val.sub.val
    /\ result.data[1] = {}

C8_CardinalityEnforced ==
    (mpc = "committed" /\ rq.op \in {"CREATE", "UPDATE"}) =>
        \A v \in DOMAIN bound :
            \A n \in bound[v] \cap exist :
                TypeOf(n) = "Post" => Cardinality(Creators(edges, n)) = 1

(***************************************************************************)
(* C9.  Every event handed to the channel is the event of a mutation the   *)
(* database had committed before, and a mutation whose statement failed    *)
(* has no event in the channel, in any stream or with any subscriber.      *)
(***************************************************************************)
C9_PublishOnlyAfterCommit ==
    /\ \A i \in 1..Len(published) :
          \E k \in 1..Len(commitLog) : commitLog[k] = published[i].mutation
    /\ \A m \in DOMAIN rpc :
          rpc[m] = "failed" =>
              /\ \A i \in 1..Len(published) : published[i].mutation # m
              /\ \A s \in DOMAIN buffer :
                    /\ \A i \in 1..Len(buffer[s]) : buffer[s][i].mutation # m
                    /\ \A i \in 1..Len(delivered[s]) : delivered[s][i].mutation # m

\* One mutation failed and published nothing; another committed, and its
\* event has been published and taken by a subscriber.
C9_Witness ==
    /\ \E m \in DOMAIN rpc : rpc[m] = "failed"
    /\ Len(published) = 1
    /\ Len(commitLog) = 1
    /\ \E s \in DOMAIN delivered : Len(delivered[s]) = 1

(***************************************************************************)
(* C10.  Once every resolver has returned and every stream is drained, a   *)
(* subscriber has taken the events of the committed mutations that match   *)
(* its subscription, one each, in the order the mutations were committed.  *)
(***************************************************************************)
C10_DeliveredInCommitOrder ==
    (/\ rpc # <<>>
     /\ \A m \in DOMAIN rpc : rpc[m] \in {"done", "failed"}
     /\ \A s \in DOMAIN buffer : buffer[s] = <<>>) =>
        \A s \in { x \in DOMAIN delivered : ~subscription[x].cancelled } :
            LET Wanted(m) == Matches(s, EventOf(m))
                wanted == SelectSeq(commitLog, Wanted)
            IN  /\ Len(delivered[s]) = Len(wanted)
                /\ \A i \in 1..Len(wanted) : delivered[s][i].mutation = wanted[i]

\* The events the resolver published for node n.
EventsOf(n) == { i \in 1..Len(epub) : epub[i].id = n }

\* C11: an update that changes no property of a matched node publishes no
\* event for that node; one that changes a field publishes exactly one
\* event for it, tagged "update", with the snapshot before the mutation as
\* old properties and the snapshot after it as new properties.
C11_UpdateEventOnlyOnChange ==
    (epc = "done" /\ erq.op = "update" /\ erq.nested = "none") =>
        \A n \in MatchMovies(ebefore, erq.where) :
            IF ebefore[n] = estore[n]
            THEN EventsOf(n) = {}
            ELSE /\ Cardinality(EventsOf(n)) = 1
                 /\ \A i \in EventsOf(n) :
                        /\ epub[i].event = "update"
                        /\ epub[i].oldProps = ebefore[n]
                        /\ epub[i].newProps = estore[n]

\* C12: in a committed statement every node that was created, changed or
\* deleted, at the root or by a nested delete, has exactly one event in the
\* statement's metadata, and no node has two.
C12_OneEventPerMutatedNode ==
    epc \in {"committed", "done"} =>
        \A n \in EvNodes :
            LET count == Cardinality({ i \in 1..Len(emeta) : emeta[i].id = n })
            IN /\ count <= 1
               /\ ebefore[n] # estore[n] => count = 1

\* A delete with a nested delete committed: the movie and its actor are gone
\* and the metadata was published.
C12_Witness ==
    /\ epc = "done"
    /\ erq.op = "delete"
    /\ ebefore["a1"] # NullProps
    /\ estore["a1"] = NullProps
    /\ \E n \in Movies : ebefore[n] # NullProps /\ estore[n] = NullProps
    /\ Len(epub) >= 2

\* C13: every published event tagged "create" has a null old snapshot and
\* the created node's properties as new snapshot; every published event
\* tagged "delete" has a null new snapshot and the properties the node had
\* before the deletion as old snapshot.
C13_CreateDeleteSnapshots ==
    \A i \in 1..Len(epub) :
        /\ epub[i].event = "create" =>
              /\ epub[i].oldProps = NullProps
              /\ epub[i].newProps # NullProps
              /\ epub[i].newProps = estore[epub[i].id]
        /\ epub[i].event = "delete" =>
              /\ epub[i].newProps = NullProps
              /\ epub[i].oldProps # NullProps
              /\ epub[i].oldProps = ebefore[epub[i].id]

\* The events handed to the stream of s so far, taken or waiting.
Handed(s) == delivered[s] \o buffer[s]

C15_SubscribersIndependent ==
    \A s \in DOMAIN delivered :
        ~subscription[s].cancelled =>
            LET Mine(e) == Matches(s, e)
            IN /\ Handed(s) = SelectSeq(published, Mine)
               /\ Len(delivered[s]) < Len(SelectSeq(published, Mine))
                      => ENABLED Deliver(s)

\* One subscriber has taken nothing of the two events waiting in its stream,
\* and another has taken the later of the two.
C15_Witness ==
    \E s, x \in DOMAIN delivered :
        /\ s # x
        /\ delivered[s] = <<>>
        /\ Len(buffer[s]) = 2
        /\ delivered[x] # <<>>
        /\ delivered[x][Len(delivered[x])] = buffer[s][2]

\* C16: once a subscription is cancelled it stays cancelled and no event is
\* added to its stream; the cancellation itself keeps or drops what waits in
\* that stream and touches no other stream; and a subscriber that has not
\* cancelled is handed every published event matching its subscription, once
\* and in publication order, also when another has cancelled.
C16_CancelStep ==
    \A s \in DOMAIN subscription :
        /\ subscription[s].cancelled =>
              /\ subscription'[s].cancelled
              /\ delivered'[s] \o buffer'[s] = Handed(s)
        /\ (~subscription[s].cancelled /\ subscription'[s].cancelled) =>
              /\ buffer'[s] = buffer[s] \/ buffer'[s] = <<>>
              /\ delivered' = delivered
              /\ published' = published
              /\ \A x \in DOMAIN subscription \ {s} : buffer'[x] = buffer[x]
C18_ConnectStep ==
    (mpc = "run" /\ ip \in 1..Len(plan) /\ ip' = ip + 1
        /\ plan[ip].c \in {"connect", "disconnect"}) =>
        LET c == plan[ip]
            e == rq.nested[CHOOSE k \in 1..Len(rq.nested) : NestedVar(rq, k) = c.var]
            sources == bound[c.parentVar]
            candidates ==
                IF c.c = "connect" THEN { n \in wexist : TypeOf(n) = "Post" }
                ELSE UNION { PostsOf(wedges, u) : u \in sources }
            passing ==
                { n \in candidates :
                    /\ e.where = Undefined \/ CompareEq(wprops[n].id, e.where)
                    /\ RuleHolds("where", n, wprops, wedges, TokenSub(rq.ctx)) }
        IN /\ FreeVars(c.where) = {c.var}
           /\ c.var # c.parentVar
           /\ bound'[c.var] = passing
           /\ wedges' = IF c.c = "connect" THEN wedges \cup (sources \X passing)
                        ELSE wedges \ (sources \X passing)
C18_TargetMatchedByOwnRule == [][C18_ConnectStep]_vars

\* A committed connect without a filter has bound a post, merged its edge,
\* and left out another post, which fails the rule of Post.
C18_Witness ==
    /\ mpc = "committed"
    /\ \E k \in 1..Len(rq.nested) :
          /\ rq.nested[k].kind = "connect"
          /\ rq.nested[k].where = Undefined
          /\ bound[NestedVar(rq, k)] # {}
          /\ \E n \in Posts : n \notin bound[NestedVar(rq, k)]
          /\ bound[RootVar(rq)] # {}
          /\ bound[RootVar(rq)] \X bound[NestedVar(rq, k)] \subseteq wedges

\* No conjunction or disjunction of the predicate has the always-true
\* predicate as an operand: the text has no `AND` with nothing at its side.
RECURSIVE NoEmptyOperand(_)
NoEmptyOperand(p) ==
    CASE p[1] \in {"and", "or"} ->
            /\ p[2] # TruePred /\ p[3] # TruePred
            /\ NoEmptyOperand(p[2]) /\ NoEmptyOperand(p[3])
      [] p[1] = "rel" -> p[5] # TruePred /\ NoEmptyOperand(p[5])
      [] OTHER -> TRUE

\* C19: a nested operation with an empty filter matches its target with the
\* rule of Post alone: the predicate is the rule's, it holds of exactly the
\* posts the rule holds of, no parameter is bound for the filter, and no
\* predicate of the statement has an empty side.
C19_EmptyFilterIsTrue ==
    mpc \in {"run", "committed", "failed", "aborted"} =>
        /\ \A i \in 1..Len(plan) : NoEmptyOperand(plan[i].where)
        /\ \A k \in 1..Len(rq.nested) :
              rq.nested[k].where = Undefined =>
                  LET var == NestedVar(rq, k)
                      cs == { i \in 1..Len(plan) :
                                /\ plan[i].var = var
                                /\ plan[i].c \in {"optmatch", "connect", "disconnect"} }
                  IN /\ cs # {}
                     /\ \A i \in cs :
                           /\ plan[i].where =
                                 createAuthPredicate("where", "Post", var, "auth_this0",
                                                     AuthParam(var))
                           /\ \A n \in Posts \cap wexist :
                                 Eval(plan[i].where, (var :> n), wprops, wedges, params)
                                     = RuleHolds("where", n, wprops, wedges,
                                                 TokenSub(rq.ctx))
                     /\ \A b \in 1..Len(params) :
                           params[b].site # <<NestedSite(rq, k), "where">>

\* deleteUsers(delete: { posts: { where: {} } }) committed: the posts of the
\* matched user were bound and deleted.
C19_Witness ==
    /\ mpc = "committed"
    /\ rq.op = "DELETE"
    /\ \E k \in 1..Len(rq.nested) :
          /\ rq.nested[k].where = Undefined
          /\ bound[NestedVar(rq, k)] # {}
          /\ bound[NestedVar(rq, k)] \cap wexist = {}

\* C20: the totalCount a connection returns below a parent node is the
\* number of nodes related to the parent for which the field's filter holds
\* and, for a where-mode rule, the rule of their type holds: the nodes the
\* edges of that connection are built from, and no other.
C20_TotalCountOverFilteredSet ==
    (tpc = "done" /\ result.status = "ok") =>
        \A i \in 1..Len(levels) :
            levels[i].kind = "conn" =>
                LET l == levels[i]
                    field == l.path[Len(l.path)]
                    entry == CHOOSE k \in 1..Len(rq.sel) : rq.sel[k].path = l.path
                    Counted(parent) ==
                        { n \in Related(edges, parent, field) :
                            /\ rq.sel[entry].where = Undefined
                               \/ CompareEq(props[n].id, rq.sel[entry].where)
                            /\ rq.schema = "where" =>
                                  RuleHolds("where", n, props, edges, TokenSub(rq.ctx)) }
                IN /\ \A pc \in result.totalCount[i] :
                         /\ pc[2] = Cardinality(Counted(pc[1]))
                         /\ Counted(pc[1]) \subseteq result.data[i]
                   /\ result.data[i] =
                         UNION { Counted(pc[1]) : pc \in result.totalCount[i] }

\* A connection with a filter returned one edge below a user that has two
\* posts: its totalCount is 1.
C20_Witness ==
    /\ tpc = "done"
    /\ result.status = "ok"
    /\ \E i \in 1..Len(levels) :
          /\ levels[i].kind = "conn"
          /\ levels[i].user # TruePred
          /\ \E pc \in result.totalCount[i] :
                /\ pc[2] = 1
                /\ Cardinality(Related(edges, pc[1], levels[i].path[Len(levels[i].path)])) = 2

\* ---------------------------------------------------------------------
\* Global ids, the tags of a rule value, and the SET clauses of an input
\* ---------------------------------------------------------------------

\* A text is a sequence of symbols; a name is a text of one symbol. The
\* longest value a global id is built from.
MaxLen == 2

Texts(symbols, n) == UNION {[1..k -> symbols] : k \in 0..n}

Least(S) == CHOOSE x \in S : \A y \in S : x <= y

\* The places of a symbol in a text.
Places(text, symbol) == {i \in 1..Len(text) : text[i] = symbol}

\* The token of a global id joins the type name, the field name and the
\* value with a delimiter; the transport encoding around the joined text
\* and its inverse cancel and are left out.
Delim == ":"

toGlobalId(typeName, field, id) == typeName \o <<Delim>> \o field \o <<Delim>> \o id

\* What decoding gives for a token that has no three parts: no part is set.
Malformed == [label |-> <<>>, field |-> <<>>, id |-> <<>>, error |-> "Malformed"]

\* A decoding that cuts the token at every delimiter and takes the third
\* piece as the value.
fromGlobalIdEveryDelim(token) ==
    LET ds == Places(token, Delim)
    IN  IF Cardinality(ds) < 2
        THEN Malformed
        ELSE LET d1 == Least(ds)
                 d2 == Least(ds \ {d1})
                 d3 == IF ds \ {d1, d2} = {} THEN Len(token) + 1
                       ELSE Least(ds \ {d1, d2})
             IN  [label |-> SubSeq(token, 1, d1 - 1),
                  field |-> SubSeq(token, d1 + 1, d2 - 1),
                  id |-> SubSeq(token, d2 + 1, d3 - 1),
                  error |-> "none"]

\* Decoding cuts the token at its first two delimiters: the type name, the
\* field name, and the rest as the value. A token with fewer than two
\* delimiters does not decompose into three parts.
fromGlobalId(token) ==
    LET ds == Places(token, Delim)
    IN  IF Cardinality(ds) < 2
        THEN Malformed
        ELSE LET d1 == Least(ds)
                 d2 == Least(ds \ {d1})
             IN  [label |-> SubSeq(token, 1, d1 - 1),
                  field |-> SubSeq(token, d1 + 1, d2 - 1),
                  id |-> SubSeq(token, d2 + 1, Len(token)),
                  error |-> "none"]

\* The type names and field names of the schemas and the values of an id:
\* a value may hold the delimiter.
TypeNames == {<<"Movie">>, <<"Actor">>, <<"Studio">>}
FieldNames == {<<"title">>, <<"dbId">>}
IdValues == Texts({"7", Delim}, MaxLen)

\* Any text that may arrive as a token, encoded or not.
AnyTokens == Texts({"Movie", "title", Delim, "7"}, MaxLen + 1)

\* The value of a rule as parseTag receives it: a string, or something
\* that has no split method (null, undefined, a number).
NoPath == [defined |-> FALSE, path |-> <<>>]
Tag(tagName) == "$" \o tagName \o "."
RuleValues ==
    {[type |-> "string", text |-> t] :
        t \in Texts({Tag("jwt"), Tag("context"), "sub"}, MaxLen + 1)}
    \cup {[type |-> "null"], [type |-> "undefined"], [type |-> "number"]}

\* A parseTag that returns everything after the first tag.
parseTagToEnd(value, tagName) ==
    IF value.type # "string" THEN NoPath
    ELSE LET at == Places(value.text, Tag(tagName))
         IN  IF at = {} THEN NoPath
             ELSE [defined |-> TRUE,
                   path |-> SubSeq(value.text, Least(at) + 1, Len(value.text))]

\* const [, path] = value?.split?.(`$${tagName}.`) || []: the second piece
\* of the value split at the tag, undefined when there is no second piece
\* or nothing to split.
parseTag(value, tagName) ==
    IF value.type # "string" THEN NoPath
    ELSE LET at == Places(value.text, Tag(tagName))
         IN  IF at = {} THEN NoPath
             ELSE LET first == Least(at)
                      later == at \ {first}
                      next == IF later = {} THEN Len(value.text) + 1 ELSE Least(later)
                  IN  [defined |-> TRUE,
                       path |-> SubSeq(value.text, first + 1, next - 1)]

\* An input of primitive values: its keys in order, each with a value.
InputKeys == {"id", "USERID", "COMPANYID"}
PrimitiveInputs ==
    {i \in UNION {[1..k -> InputKeys \X {"new", "userid"}] : k \in 1..MaxLen} :
        \A a, b \in DOMAIN i : a # b => i[a][1] # i[b][1]}

\* A SET clause and the parameter it reads.
SetClause(var, key, param, value) ==
    [var |-> var, prop |-> key, param |-> param, value |-> value]

\* An update that names its parameters like those of a create.
createUpdateAndParamsNoInfix(updateInput, varName) ==
    [k \in DOMAIN updateInput |->
        SetClause(varName, updateInput[k][1],
                  varName \o "_" \o updateInput[k][1], updateInput[k][2])]

\* SET this.id = $this_update_id with this_update_id bound to the value:
\* one clause per key of the update input, in the order of the keys.
createUpdateAndParams(updateInput, varName) ==
    [k \in DOMAIN updateInput |->
        SetClause(varName, updateInput[k][1],
                  varName \o "_update_" \o updateInput[k][1], updateInput[k][2])]

\* SET this0.USERID = $this0_USERID: one clause per key of the create input
\* at the given index of the batch.
createCreateAndParams(input, index) ==
    [k \in DOMAIN input |->
        SetClause("this" \o ToStr(index), input[k][1],
                  "this" \o ToStr(index) \o "_" \o input[k][1], input[k][2])]

\* No read is translated.
TIdle ==
    /\ rq = <<>>
    /\ tpc = "idle"
    /\ work = <<>>
    /\ levels = <<>>
    /\ params = <<>>
    /\ props = <<>>
    /\ edges = {}
    /\ result = NoResult

\* The arguments a helper function is applied to.
FnInputs ==
    {[fn |-> "toGlobalId", typeName |-> t, field |-> f, id |-> v] :
        t \in TypeNames, f \in FieldNames, v \in IdValues}
    \cup {[fn |-> "fromGlobalId", token |-> t] : t \in AnyTokens}
    \cup {[fn |-> "parseTag", value |-> v, tagName |-> t] :
            v \in RuleValues, t \in {"jwt", "context"}}
    \cup {[fn |-> "createUpdateAndParams", updateInput |-> i, varName |-> v] :
            i \in PrimitiveInputs, v \in {"this", "this0"}}
    \cup {[fn |-> "createCreateAndParams", input |-> i, index |-> n] :
            i \in PrimitiveInputs, n \in 0..1}

FInit ==
    /\ TIdle
    /\ MIdle
    /\ SIdle
    /\ EIdle
    /\ gpc = <<>>
    /\ garg = <<>>
    /\ context = <<>>
    /\ gquery = <<>>
    /\ gcalls = <<>>
    /\ gout = <<>>
    /\ fin \in FnInputs
    /\ fout = <<>>

\* toGlobalId is applied to a triple.
ApplyToGlobalId ==
    /\ fin # <<>>
    /\ fin.fn = "toGlobalId"
    /\ fout = <<>>
    /\ fout' = <<toGlobalId(fin.typeName, fin.field, fin.id)>>
    /\ UNCHANGED <<tvars, mvars, svars, evars, gpc, garg, context, gquery, gcalls, gout, fin>>

\* fromGlobalId is applied to the token just made, or to an arbitrary one.
ApplyFromGlobalId ==
    /\ fin # <<>>
    /\ \/ /\ fin.fn = "toGlobalId"
          /\ Len(fout) = 1
          /\ fout' = Append(fout, fromGlobalId(fout[1]))
       \/ /\ fin.fn = "fromGlobalId"
          /\ fout = <<>>
          /\ fout' = <<fin.token, fromGlobalId(fin.token)>>
    /\ UNCHANGED <<tvars, mvars, svars, evars, gpc, garg, context, gquery, gcalls, gout, fin>>

ApplyParseTag ==
    /\ fin # <<>>
    /\ fin.fn = "parseTag"
    /\ fout = <<>>
    /\ fout' = <<parseTag(fin.value, fin.tagName)>>
    /\ UNCHANGED <<tvars, mvars, svars, evars, gpc, garg, context, gquery, gcalls, gout, fin>>

ApplyCreateUpdateAndParams ==
    /\ fin # <<>>
    /\ fin.fn = "createUpdateAndParams"
    /\ fout = <<>>
    /\ fout' = <<createUpdateAndParams(fin.updateInput, fin.varName)>>
    /\ UNCHANGED <<tvars, mvars, svars, evars, gpc, garg, context, gquery, gcalls, gout, fin>>

ApplyCreateCreateAndParams ==
    /\ fin # <<>>
    /\ fin.fn = "createCreateAndParams"
    /\ fout = <<>>
    /\ fout' = <<createCreateAndParams(fin.input, fin.index)>>
    /\ UNCHANGED <<tvars, mvars, svars, evars, gpc, garg, context, gquery, gcalls, gout, fin>>

SpecFn ==
    FInit /\ [][ApplyToGlobalId \/ ApplyFromGlobalId \/ ApplyParseTag
                \/ ApplyCreateUpdateAndParams \/ ApplyCreateCreateAndParams]_vars

\* C21: decoding the token of a triple gives the triple back: the type
\* name, the field name and the value that were encoded, for every triple
\* of a type name, a field name and a value, the value holding the
\* delimiter or not.
C21_RoundTrip ==
    (fin # <<>> /\ fin.fn = "toGlobalId" /\ Len(fout) = 2)
        => /\ fout[2].error = "none"
           /\ fout[2].label = fin.typeName
           /\ fout[2].field = fin.field
           /\ fout[2].id = fin.id

\* A triple whose value holds the delimiter was encoded and decoded.
C21_Witness ==
    /\ fin # <<>>
    /\ fin.fn = "toGlobalId"
    /\ Len(fout) = 2
    /\ Places(fin.id, Delim) # {}
    /\ Len(fin.id) > 1

\* The text of a value from just after place i up to the next tag or the end.
UpToNextTag(text, i, tagName) ==
    LET later == {j \in Places(text, Tag(tagName)) : j > i}
    IN  SubSeq(text, i + 1, IF later = {} THEN Len(text) ELSE Least(later) - 1)

\* C30: parseTag returns the text between the first occurrence of the tag
\* it was asked for and the next one (or the end); it returns undefined for
\* a value without that tag, whatever other tag it holds, and for a value
\* that is no string.
C30_ParseTag ==
    (fin # <<>> /\ fin.fn = "parseTag" /\ fout # <<>>)
        => IF fin.value.type = "string" /\ Places(fin.value.text, Tag(fin.tagName)) # {}
           THEN /\ fout[1].defined
                /\ \E i \in Places(fin.value.text, Tag(fin.tagName)) :
                      /\ \A j \in 1..(i - 1) : fin.value.text[j] # Tag(fin.tagName)
                      /\ fout[1].path = UpToNextTag(fin.value.text, i, fin.tagName)
                /\ Places(fout[1].path, Tag(fin.tagName)) = {}
           ELSE fout[1] = NoPath

\* parseTag was asked for jwt on a value that holds the jwt tag twice, with
\* a context tag before the first; and on a value that holds only the
\* context tag.
C30_Witness ==
    /\ fin # <<>>
    /\ fin.fn = "parseTag"
    /\ fin.tagName = "jwt"
    /\ fin.value.type = "string"
    /\ fin.value.text = <<Tag("jwt"), "sub", Tag("jwt")>>
    /\ fout = <<[defined |-> TRUE, path |-> <<"sub">>]>>

GNodes ==
    << [name |-> "Movie", mainLabel |-> <<"Movie">>, idField |-> "title",
        dbNames |-> [title |-> "title"]],
       [name |-> "Actor", mainLabel |-> <<"Actor">>, idField |-> "dbId",
        dbNames |-> [name |-> "name", dbId |-> "id"]] >>

\* What a query selects below node(id:): id, and per type the fields of its
\* inline fragment.
Trees ==
    {[common |-> {"id"}, on |-> [Movie |-> m, Actor |-> a]] :
        m \in {{}, {"title"}}, a \in {{}, {"name"}}}

\* The tokens a client sends: the global ids of movies and of an actor, the
\* id of a type no node has, tokens with fewer than three parts, and tokens
\* with an empty part.
GTokens ==
    {toGlobalId(<<"Movie">>, <<"title">>, v) : v \in {w \in IdValues : w # <<>> /\ w[1] = "7"}}
    \cup {toGlobalId(<<"Actor">>, <<"dbId">>, <<"7">>),
          toGlobalId(<<"Studio">>, <<"title">>, <<"7">>),
          <<>>, <<"Movie">>, <<"Movie", Delim, "title">>,
          toGlobalId(<<>>, <<"title">>, <<"7">>),
          toGlobalId(<<"Movie">>, <<>>, <<"7">>),
          toGlobalId(<<"Movie">>, <<"title">>, <<>>)}

Calls == {"a", "b"}

\* What execute may resolve with: no record, a record without this, a
\* record with this, a record whose this has an id and a __resolveType of
\* its own, and two records.
RecordSets ==
    { <<>>,
      <<[has |-> FALSE, this |-> <<>>]>>,
      <<[has |-> TRUE, this |-> [title |-> <<"River">>]]>>,
      <<[has |-> TRUE, this |-> [id |-> <<"raw">>, __resolveType |-> <<"Other">>,
                                 title |-> <<"Clash">>]]>>,
      <<[has |-> TRUE, this |-> [title |-> <<"First">>]],
        [has |-> TRUE, this |-> [title |-> <<"Second">>, name |-> <<"Else">>]]>> }

ExecuteErrors == {"ServiceUnavailable", "ConstraintValidationFailed"}

\* A resolver that throws where it has nothing to return.
NotFoundThrows == [kind |-> "throw", error |-> "Malformed"]

\* return null
NotFound == [kind |-> "return", value |-> <<>>]

\* if (!label || !field || !id)
PartsMissing(d) == d.label = <<>> \/ d.field = <<>> \/ d.id = <<>>

\* A lookup that falls back to the first node.
FindNodeOrFirst(nodes, label) ==
    LET found == SelectSeq(nodes, LAMBDA n : n.mainLabel = label)
    IN  IF found = <<>> THEN <<nodes[1]>> ELSE <<found[1]>>

\* nodes.find((n) => n.getMainLabel() === label): the first such node, if any.
FindNode(nodes, label) ==
    LET found == SelectSeq(nodes, LAMBDA n : n.mainLabel = label)
    IN  IF found = <<>> THEN <<>> ELSE <<found[1]>>

\* A context that keeps the resolve tree it was first given.
KeepResolveTree(ctx, tree) ==
    IF ctx.resolveTree = <<>> THEN [ctx EXCEPT !.resolveTree = <<tree>>] ELSE ctx

\* context.resolveTree = getNeo4jResolveTree(info): the arguments and the
\* selection of this call.
SetResolveTree(ctx, tree) == [ctx EXCEPT !.resolveTree = <<tree>>]

\* A read that filters and projects by field name, whatever the property
\* the field is stored as.
ReadQueryNoAlias(tree, node, suffix) ==
    LET d == fromGlobalId(tree.args.id)
        field == d.field[1]
        selected == tree.selection.on[node.name]
                    \cup (IF "id" \in tree.selection.common THEN {node.idField} ELSE {})
    IN  [match |-> node.mainLabel,
         where |-> [prop |-> field, param |-> "this_" \o field \o suffix],
         projection |-> {[key |-> f, prop |-> f] : f \in selected},
         params |-> {<<"this_" \o field \o suffix, d.id>>}]

\* MATCH (this:Actor) WHERE this.id = $this_dbId
\* RETURN this { .name, dbId: this.id } as this
\* The filter is on the field and the value of the global id in the tree's
\* arguments; the projection holds the fields of the node's own fragment and,
\* for the selected id, the field that identifies the node.
ReadQuery(tree, node, suffix) ==
    LET d == fromGlobalId(tree.args.id)
        field == d.field[1]
        selected == tree.selection.on[node.name]
                    \cup (IF "id" \in tree.selection.common THEN {node.idField} ELSE {})
        dbName(f) == IF f \in DOMAIN node.dbNames THEN node.dbNames[f] ELSE f
    IN  [match |-> node.mainLabel,
         where |-> [prop |-> dbName(field), param |-> "this_" \o field \o suffix],
         projection |-> {[key |-> f, prop |-> dbName(f)] : f \in selected},
         params |-> {<<"this_" \o field \o suffix, d.id>>}]

\* A translation that numbers its parameters with a counter all
\* translations share.
translateReadCounted(ctx, node) ==
    ReadQuery(ctx.resolveTree[1], node,
              ToStr(Cardinality({c \in Calls : gcalls[c].translate > 0})))

\* translateRead({ context, node }) reads the tree from the context.
translateRead(ctx, node) == ReadQuery(ctx.resolveTree[1], node, "")

\* An object built with the record spread last.
ResultObjectRecordLast(records, id, node) ==
    LET obj == [id |-> id, __resolveType |-> <<node.name>>]
    IN  IF records # <<>> /\ records[1].has
        THEN [k \in DOMAIN obj \cup DOMAIN records[1].this |->
                 IF k \in DOMAIN records[1].this THEN records[1].this[k] ELSE obj[k]]
        ELSE obj

\* let obj = { id: _args.id, __resolveType: node.name };
\* if (records.length && records[0].this) obj = { ...records[0].this, ...obj };
ResultObject(records, id, node) ==
    LET obj == [id |-> id, __resolveType |-> <<node.name>>]
    IN  IF records # <<>> /\ records[1].has
        THEN [k \in DOMAIN obj \cup DOMAIN records[1].this |->
                 IF k \in DOMAIN obj THEN obj[k] ELSE records[1].this[k]]
        ELSE obj

\* A resolver that runs the query again when it failed.
AfterRejectRetry(error) == [pc |-> "awaiting", out |-> <<>>]

\* await execute(...) is not guarded: its rejection is the resolver's.
AfterReject(error) == [pc |-> "thrown", out |-> <<[kind |-> "throw", error |-> error]>>]

GInit ==
    /\ TIdle
    /\ MIdle
    /\ SIdle
    /\ EIdle
    /\ gpc = [c \in Calls |-> "ready"]
    /\ garg \in [Calls -> {[id |-> t, info |-> [args |-> [id |-> t], selection |-> s]] :
                              t \in GTokens, s \in Trees}]
    /\ context = [resolveTree |-> <<>>]
    /\ gquery = [c \in Calls |-> <<>>]
    /\ gcalls = [c \in Calls |-> [translate |-> 0, execute |-> 0, rejected |-> "none"]]
    /\ gout = [c \in Calls |-> <<>>]
    /\ fin = <<>>
    /\ fout = <<>>

\* resolve up to the await: decode, find the node, set the tree, translate,
\* call execute.
Resolve(c) ==
    /\ gpc[c] = "ready"
    /\ LET d == fromGlobalId(garg[c].id)
           found == FindNode(GNodes, d.label)
       IN  IF PartsMissing(d) \/ found = <<>>
           THEN /\ gpc' = [gpc EXCEPT ![c] = "returned"]
                /\ gout' = [gout EXCEPT ![c] = <<NotFound>>]
                /\ UNCHANGED <<context, gquery, gcalls>>
           ELSE /\ context' = SetResolveTree(context, garg[c].info)
                /\ gquery' = [gquery EXCEPT ![c] = <<translateRead(context', found[1])>>]
                /\ gcalls' = [gcalls EXCEPT ![c].translate = @ + 1, ![c].execute = @ + 1]
                /\ gpc' = [gpc EXCEPT ![c] = "awaiting"]
                /\ UNCHANGED gout
    /\ UNCHANGED <<tvars, mvars, svars, evars, garg, fin, fout>>

\* execute resolves and resolve returns the object.
ExecuteResolves(c) ==
    /\ gpc[c] = "awaiting"
    /\ \E records \in RecordSets :
          gout' = [gout EXCEPT ![c] =
                      <<[kind |-> "return",
                         value |-> <<ResultObject(records, garg[c].id,
                                        FindNode(GNodes, fromGlobalId(garg[c].id).label)[1])>>]>>]
    /\ gpc' = [gpc EXCEPT ![c] = "returned"]
    /\ UNCHANGED <<tvars, mvars, svars, evars, garg, context, gquery, gcalls, fin, fout>>

\* execute rejects.
ExecuteRejects(c) ==
    /\ gpc[c] = "awaiting"
    /\ \E error \in ExecuteErrors :
          /\ gpc' = [gpc EXCEPT ![c] = AfterReject(error).pc]
          /\ gout' = [gout EXCEPT ![c] = AfterReject(error).out]
          /\ gcalls' = [gcalls EXCEPT ![c].rejected = error,
                                      ![c].execute = IF AfterReject(error).pc = "awaiting"
                                                     THEN @ + 1 ELSE @]
    /\ UNCHANGED <<tvars, mvars, svars, evars, garg, context, gquery, fin, fout>>

SpecNode ==
    GInit /\ [][\E c \in Calls : Resolve(c) \/ ExecuteResolves(c) \/ ExecuteRejects(c)]_vars

\* C22: a token that has no three parts decodes to the Malformed error, and
\* the resolver returns null for it: it does not throw, it translates
\* nothing and executes nothing, and it leaves the context alone.
C22_MalformedIsNotFound ==
    \A c \in Calls :
        Cardinality(Places(garg[c].id, Delim)) < 2
            => /\ fromGlobalId(garg[c].id).error = "Malformed"
               /\ gpc[c] \in {"ready", "returned"}
               /\ gpc[c] = "returned" => gout[c] = <<[kind |-> "return", value |-> <<>>]>>
               /\ gquery[c] = <<>>
               /\ gcalls[c].translate = 0
               /\ gcalls[c].execute = 0
               /\ (\A o \in Calls \ {c} : gpc[o] = "ready") => context.resolveTree = <<>>

\* A call with a token of two parts has returned while the other call has
\* translated and waits for the database.
C22_Witness ==
    /\ garg["a"].id = <<"Movie", Delim, "title">>
    /\ gpc["a"] = "returned"
    /\ gpc["b"] = "awaiting"

\* The node of the nodes list a token names, as a sequence of at most one.
NodeOf(token) == SelectSeq(GNodes, LAMBDA n : n.mainLabel = fromGlobalId(token).label)

\* C23: for the token of (typeName, fieldName, value) the resolver translates
\* a read that matches the type whose main label is typeName, filters it by
\* equality of the decoded field, under the name of the property it is
\* stored as, with the decoded value, and projects the fields selected for
\* that type: those of its own fragment and the identifying field for the
\* selected id, no field of another type's fragment.
C23_ReadOfDecodedTriple ==
    \A c \in Calls :
        gquery[c] # <<>>
            => LET q == gquery[c][1]
                   d == fromGlobalId(garg[c].id)
                   sel == garg[c].info.selection
               IN  /\ NodeOf(garg[c].id) # <<>>
                   /\ q.match = d.label
                   /\ q.where.prop = NodeOf(garg[c].id)[1].dbNames[d.field[1]]
                   /\ q.where.param = "this_" \o d.field[1]
                   /\ q.params = {<<q.where.param, d.id>>}
                   /\ d.label = <<"Actor">> => q.where = [prop |-> "id", param |-> "this_dbId"]
                   /\ \A f \in sel.on[NodeOf(garg[c].id)[1].name] :
                         \E e \in q.projection : e.key = f
                   /\ \A e \in q.projection :
                         /\ e.prop = NodeOf(garg[c].id)[1].dbNames[e.key]
                         /\ \/ e.key \in sel.on[NodeOf(garg[c].id)[1].name]
                            \/ "id" \in sel.common /\ e.key = NodeOf(garg[c].id)[1].idField

\* The token of Actor 7 was resolved under a selection of id, Movie.title
\* and Actor.name: the read projects name and dbId as this.id, not title.
C23_Witness ==
    /\ garg["a"].id = toGlobalId(<<"Actor">>, <<"dbId">>, <<"7">>)
    /\ garg["a"].info.selection = [common |-> {"id"}, on |-> [Movie |-> {"title"}, Actor |-> {"name"}]]
    /\ gquery["a"] # <<>>
    /\ gquery["a"][1].projection = {[key |-> "name", prop |-> "name"], [key |-> "dbId", prop |-> "id"]}

C25_ExecutionErrorPropagates ==
    \A c \in Calls :
        /\ gcalls[c].execute <= 1
        /\ gcalls[c].rejected # "none"
              => /\ gpc[c] = "thrown"
                 /\ gout[c] = <<[kind |-> "throw", error |-> gcalls[c].rejected]>>
        /\ gpc[c] = "thrown" => gcalls[c].rejected \in ExecuteErrors

\* The query of one call was rejected and the call has thrown, while the
\* other call returned an object.
C25_Witness ==
    /\ gpc["a"] = "thrown"
    /\ gcalls["a"].execute = 1
    /\ gout["a"] = <<[kind |-> "throw", error |-> "ServiceUnavailable"]>>
    /\ gpc["b"] = "returned"
    /\ gcalls["b"].execute = 1

\* C27: a call that reached execute and was not rejected returns an object,
\* never null, whose id is the token it was given and whose __resolveType
\* is the name of the matched node: with no record, with a first record
\* without this, and with a first record whose this has an id or a
\* __resolveType of its own. Every other key is one of the first record.
C27_ResultKeepsIdAndType ==
    \A c \in Calls :
        (gpc[c] = "returned" /\ gcalls[c].execute > 0)
            => /\ gout[c][1].kind = "return"
               /\ gout[c][1].value # <<>>
               /\ LET obj == gout[c][1].value[1]
                  IN  /\ obj.id = garg[c].id
                      /\ obj.__resolveType = <<NodeOf(garg[c].id)[1].name>>
                      /\ \A k \in DOMAIN obj \ {"id", "__resolveType"} :
                            \E records \in RecordSets :
                               /\ records # <<>>
                               /\ records[1].has
                               /\ k \in DOMAIN records[1].this
                               /\ obj[k] = records[1].this[k]

\* One call returned from a record whose this has an id and a __resolveType
\* of its own, the other from two records.
C27_Witness ==
    /\ gpc["a"] = "returned"
    /\ gout["a"][1].value # <<>>
    /\ "title" \in DOMAIN gout["a"][1].value[1]
    /\ gout["a"][1].value[1].title = <<"Clash">>
    /\ gout["a"][1].value[1].id = garg["a"].id
    /\ gpc["b"] = "returned"
    /\ gout["b"][1].value # <<>>
    /\ "title" \in DOMAIN gout["b"][1].value[1]
    /\ gout["b"][1].value[1].title = <<"First">>

\* C28: of two calls on one context each translates from its own tree: the
\* query a call hands to execute is the translation of the tree of that
\* call, whatever tree the context holds by now.
C28_TranslatesOwnTree ==
    \A c \in Calls :
        gquery[c] # <<>>
            => /\ gquery[c][1].params = {<<gquery[c][1].where.param, fromGlobalId(garg[c].id).id>>}
               /\ gquery[c][1].match = fromGlobalId(garg[c].id).label
               /\ {e.key : e \in gquery[c][1].projection}
                     = garg[c].info.selection.on[NodeOf(garg[c].id)[1].name]
                       \cup {NodeOf(garg[c].id)[1].idField}
               /\ context.resolveTree # <<>>
               /\ \E o \in Calls : gquery[o] # <<>> /\ context.resolveTree = <<garg[o].info>>

\* Call a waits for the database with the query of its own tree while the
\* context already holds the different tree of call b.
C28_Witness ==
    /\ gpc["a"] = "awaiting"
    /\ gpc["b"] = "awaiting"
    /\ garg["a"].id # garg["b"].id
    /\ garg["a"].info.selection # garg["b"].info.selection
    /\ context.resolveTree = <<garg["b"].info>>
    /\ NodeOf(garg["a"].id) = NodeOf(garg["b"].id)
    /\ gquery["a"] # gquery["b"]

\* A token of three parts whose type no node has.
UnknownType(token) ==
    /\ fromGlobalId(token).error = "none"
    /\ ~PartsMissing(fromGlobalId(token))
    /\ \A i \in DOMAIN GNodes : GNodes[i].mainLabel # fromGlobalId(token).label

\* The step of a call with a token of an unknown type leaves the context as
\* it was.
C29_UnknownTypeStep ==
    \A c \in Calls :
        (UnknownType(garg[c].id) /\ gpc[c] # gpc'[c]) => context' = context

\* C29: for a well-formed token whose type name is the main label of no
\* node, resolve returns null: the context is left as it was, nothing is
\* translated and nothing is executed.
C29_UnknownTypeIsNotFound ==
    /\ [](\A c \in Calls :
            UnknownType(garg[c].id)
                => /\ gpc[c] \in {"ready", "returned"}
                   /\ gpc[c] = "returned" => gout[c] = <<[kind |-> "return", value |-> <<>>]>>
                   /\ gquery[c] = <<>>
                   /\ gcalls[c].translate = 0
                   /\ gcalls[c].execute = 0)
    /\ [][C29_UnknownTypeStep]_vars

\* The call with the token of a Studio returned null after the other call
\* had set its tree on the context, which is still there.
C29_Witness ==
    /\ UnknownType(garg["a"].id)
    /\ gpc["a"] = "returned"
    /\ gout["a"] = <<[kind |-> "return", value |-> <<>>]>>
    /\ gpc["b"] = "awaiting"
    /\ context.resolveTree = <<garg["b"].info>>

====
